---- MODULE Spec2Model ----
(***************************************************************************)
(* The GLSL emitter of XShaderCompiler                                     *)
(* (src/src/Compiler/Backend/GLSL/GLSLGenerator.cpp) as a state machine.   *)
(*                                                                         *)
(* One generation request is GenerateCodePrimary(program, inputDesc,       *)
(* outputDesc).  The program is the abstract syntax tree as the passes     *)
(* leave it (flags such as isReachable are annotations of the tree).  The  *)
(* visitor is translated into operators that yield the sequence of calls   *)
(* the code makes on the Generator base class (BeginLn, Write, EndLn,      *)
(* Blank, IncIndent, DecIndent, Error, Warning, the statistics push_back), *)
(* in the order the code makes them; an action applies the calls of one    *)
(* handler to the emitter state.                                           *)
(*                                                                         *)
(* Text is a sequence of lines, a line a sequence of tokens: one token per *)
(* string literal or identifier of a Write argument, the decimal digits of *)
(* std::to_string one token each.                                          *)
(***************************************************************************)
EXTENDS Integers, Sequences, FiniteSets, TLC

-----------------------------------------------------------------------------
(* Bounds of the model *)

\* number of global statements of a program besides the entry point
MaxGlobals == 1

\* slot indices of registers range over 0..MaxSlot
MaxSlot == 1

\* readings of the clock range over 0..MaxClock
MaxClock == 1

-----------------------------------------------------------------------------
(* Sequences *)

RECURSIVE Flatten(_)
Flatten(ss) == IF ss = <<>> THEN <<>> ELSE Head(ss) \o Flatten(Tail(ss))

Range(s) == { s[i] : i \in 1..Len(s) }

-----------------------------------------------------------------------------
(* std::to_string on the non-negative integers the emitter prints *)

Digits == <<"0", "1", "2", "3", "4", "5", "6", "7", "8", "9">>

RECURSIVE to_string(_)
to_string(n) ==
    IF n < 10 THEN <<Digits[n + 1]>>
    ELSE to_string(n \div 10) \o <<Digits[(n % 10) + 1]>>

-----------------------------------------------------------------------------
(* Calls on the Generator base class *)

BeginLn     == <<[op |-> "BeginLn"]>>
EndLn       == <<[op |-> "EndLn"]>>
Blank       == <<[op |-> "Blank"]>>
IncIndent   == <<[op |-> "IncIndent"]>>
DecIndent   == <<[op |-> "DecIndent"]>>
Write(toks) == [i \in 1..Len(toks) |-> [op |-> "Write", s |-> toks[i]]]
WriteLn(toks) == BeginLn \o Write(toks) \o EndLn

\* row 0: a report without position (ast == nullptr)
NoPos == 0

Error(msg, row)   == <<[op |-> "Error", msg |-> msg, row |-> row]>>
Warning(msg, row) == <<[op |-> "Warning", msg |-> msg, row |-> row]>>

\* a callee that is not part of the emitter raises an exception
Throw(kind, msg, row) == <<[op |-> "Throw", kind |-> kind, msg |-> msg, row |-> row]>>

\* the exception of a callee arrives in a handler of the emitter
Caught(throw) == <<[op |-> "Caught", kind |-> throw.kind, msg |-> throw.msg, row |-> throw.row]>>

PushStat(ident, binding) == <<[op |-> "Stat", ident |-> ident, binding |-> binding]>>

\* assignment to a member variable of the emitter
Set(var, val) == <<[op |-> "Set", var |-> var, val |-> val]>>

\* the process dies (dereference of a null pointer)
Crash == <<[op |-> "Crash"]>>

PushOptions(allowBlanks, allowLineSeparation) == <<[op |-> "PushOptions", allowBlanks |-> allowBlanks, allowLineSeparation |-> allowLineSeparation]>>

PopOptions == <<[op |-> "PopOptions"]>>

OpenScope == WriteLn(<<"{">>) \o IncIndent

CloseScope(semicolon) == DecIndent \o WriteLn(<<IF semicolon THEN "};" ELSE "}">>)

Comment(toks) == WriteLn(<<"// ">> \o toks)

Version(versionNumber) == WriteLn(<<"#version ">> \o to_string(versionNumber))

\* g: the member variables of the emitter the visitors read
Line(g, row) ==
    IF g.allowLineMarks_ THEN WriteLn(<<"#line ">> \o to_string(row)) ELSE <<>>

WriteExtension(extensionName) == WriteLn(<<"#extension ", extensionName, " : enable">>)

\* the value a member variable has after the calls ops, given its value before
RECURSIVE ValueAfter(_, _, _)
ValueAfter(ops, var, before) ==
    IF ops = <<>> THEN before
    ELSE LET last == ops[Len(ops)]
         IN  IF last.op = "Set" /\ last.var = var THEN last.val
             ELSE ValueAfter(SubSeq(ops, 1, Len(ops) - 1), var, before)

-----------------------------------------------------------------------------
(* Lookup tables and helpers that live outside GLSLGenerator.cpp *)

\* data-type -> GLSL keyword; a data type outside the table has no keyword
DataTypeToGLSLKeyword(dataType) ==
    CASE dataType = "Float"  -> <<"float">>
      [] dataType = "Float2" -> <<"vec2">>
      [] dataType = "Float3" -> <<"vec3">>
      [] dataType = "Float4" -> <<"vec4">>
      [] dataType = "Int"    -> <<"int">>
      [] dataType = "Double" -> <<"double">>
      [] OTHER               -> <<>>

\* HLSL texture type -> GLSL sampler keyword
BufferTypeToGLSLKeyword(textureType) ==
    CASE textureType = "Texture2D" -> <<"sampler2D">>
      [] textureType = "Texture3D" -> <<"sampler3D">>
      [] OTHER                     -> <<>>

\* system-value semantic -> GLSL built-in
SemanticToGLSLKeyword(semantic) ==
    CASE semantic.name = "SV_Position" -> <<"gl_Position">>
      [] semantic.name = "SV_Depth"    -> <<"gl_FragDepth">>
      [] semantic.name = "SV_VertexID" -> <<"gl_VertexID">>
      [] OTHER                         -> <<>>

TargetToString(target) ==
    CASE target = "VertexShader"   -> "Vertex Shader"
      [] target = "FragmentShader" -> "Fragment Shader"
      [] target = "ComputeShader"  -> "Compute Shader"
      [] OTHER                     -> "Undefined"

\* the first register of the list that is unconditional or for the target
GetForTarget(registers, shaderTarget) ==
    LET hits == { i \in 1..Len(registers) :
                    registers[i].shaderTarget \in {"Undefined", shaderTarget} }
    IN  IF hits = {} THEN <<>>
        ELSE <<registers[CHOOSE i \in hits : \A j \in hits : i <= j]>>

\* ValidateRegisterPrefix, through BRegister ('b') and TRegister ('t'): no
\* visitor calls them
ValidateRegisterPrefix(register, prefix, row) ==
    IF register.type # prefix THEN Error("invalid register prefix", row) ELSE <<>>

\* structures at the stage boundary are flattened instead of declared
MustResolveStructForTarget(shaderTarget, ast) ==
    \/ shaderTarget = "VertexShader"   /\ ast.isShaderInput
    \/ shaderTarget = "FragmentShader" /\ ast.isShaderOutput
    \/ shaderTarget = "ComputeShader"  /\ (ast.isShaderInput \/ ast.isShaderOutput)

MustResolveStruct(g, ast) == MustResolveStructForTarget(g.shaderTarget_, ast)

-----------------------------------------------------------------------------
(* Expressions *)

DoubleToFloatDataType(dataType) ==
    IF dataType = "Double" THEN "Float" ELSE dataType

WriteDataType(g, dataType, row) ==
    LET dt == IF g.versionOut_ < 400 THEN DoubleToFloatDataType(dataType) ELSE dataType
    IN  IF DataTypeToGLSLKeyword(dt) # <<>>
        THEN Write(DataTypeToGLSLKeyword(dt))
        ELSE Error("failed to map data type to GLSL keyword", row)

\* intrinsic -> GLSL keyword; an intrinsic outside the table has no keyword
IntrinsicToGLSLKeyword(intrinsic) ==
    CASE intrinsic = "Dot" -> <<"dot">>
      [] OTHER             -> <<>>

\* the data type of the vector subscript ident on a value of type dataType:
\* the scalar type the value is made of, or a vector of it with one
\* component for each letter of the subscript
SubscriptDataType(dataType, ident) ==
    LET base == CASE dataType \in {"Float", "Float2", "Float3", "Float4"} -> "Float"
                  [] dataType = "Double" -> "Double"
                  [] OTHER -> "Int"
        n    == CASE ident \in {"x", "y"} -> 1
                  [] ident \in {"xx", "xy"} -> 2
                  [] ident \in {"xxx", "xyz"} -> 3
                  [] OTHER -> 4
    IN  IF n = 1 THEN base
        ELSE IF base = "Float" THEN <<"Float", "Float2", "Float3", "Float4">>[n]
        ELSE "Undefined"

\* TypeDenoter::IsScalar
IsScalar(typeDenoter) ==
    typeDenoter.kind = "Base" /\ typeDenoter.dataType \in {"Float", "Int", "Double"}

\* the type of the left-hand side is taken for every identifier of the chain
GetTypeDenoterForSuffixVarIdent_LeftMost(lhsTypeDen, ast) ==
    lhsTypeDen

\* ast: a VarIdent of the chain; the type of the value it selects
GetTypeDenoterForSuffixVarIdent(lhsTypeDen, ast) ==
    IF lhsTypeDen.kind = "Base"
    THEN [kind |-> "Base", dataType |-> SubscriptDataType(lhsTypeDen.dataType, ast.ident)]
    ELSE ast.typeDenoter

\* varIdent: the chain of identifiers from ast on (ast->next, ...)
RECURSIVE WriteSuffixVarIdentBegin(_, _, _, _)
WriteSuffixVarIdentBegin(g, lhsTypeDen, varIdent, row) ==
    (IF Len(varIdent) > 1
     THEN WriteSuffixVarIdentBegin(g, GetTypeDenoterForSuffixVarIdent(lhsTypeDen, Head(varIdent)),
                                   Tail(varIdent), row)
     ELSE <<>>)
    \o (IF IsScalar(lhsTypeDen)
        THEN WriteDataType(g, SubscriptDataType(lhsTypeDen.dataType, Head(varIdent).ident), row)
             \o Write(<<"(">>)
        ELSE <<>>)

RECURSIVE WriteSuffixVarIdentEnd(_, _, _)
WriteSuffixVarIdentEnd(g, lhsTypeDen, varIdent) ==
    (IF IsScalar(lhsTypeDen) THEN Write(<<")">>)
     ELSE Write(<<".">>) \o Write(<<Head(varIdent).ident>>))
    \o (IF Len(varIdent) > 1
        THEN WriteSuffixVarIdentEnd(g, GetTypeDenoterForSuffixVarIdent(lhsTypeDen, Head(varIdent)),
                                    Tail(varIdent))
        ELSE <<>>)

RECURSIVE VisitExpr(_, _)
RECURSIVE WriteArguments(_, _)
RECURSIVE VisitFunctionCall(_, _)

\* the loop over ast->arguments of WriteFunctionCallStandard
WriteArguments(g, arguments) ==
    IF arguments = <<>> THEN <<>>
    ELSE VisitExpr(g, Head(arguments))
         \o (IF Len(arguments) > 1 THEN Write(<<", ">>) ELSE <<>>)
         \o WriteArguments(g, Tail(arguments))

AssertIntrinsicNumArgs(ast, numArgsMin, numArgsMax) ==
    IF Len(ast.arguments) < numArgsMin \/ Len(ast.arguments) > numArgsMax
    THEN Error("invalid number of arguments in intrinsic", ast.row)
    ELSE <<>>

\* the lambda WriteMulArgument, on ast->arguments[i - 1]; reading an element
\* past the end of the vector is undefined: the process dies, or the element
\* read is written as it is found
WriteMulArgument(g, arguments, i) ==
    IF i > Len(arguments)
    THEN (IF g.ub = "crash" THEN Crash ELSE Write(<<"<garbage>">>))
    ELSE IF arguments[i].type \in {"TernaryExpr", "BinaryExpr", "UnaryExpr", "PostUnaryExpr"}
         THEN Write(<<"(">>) \o VisitExpr(g, arguments[i]) \o Write(<<")">>)
         ELSE VisitExpr(g, arguments[i])

WriteFunctionCallIntrinsicMul(g, ast) ==
    AssertIntrinsicNumArgs(ast, 2, 2)
    \o Write(<<"(">>)
    \o WriteMulArgument(g, ast.arguments, 1)
    \o Write(<<" * ">>)
    \o WriteMulArgument(g, ast.arguments, 2)
    \o Write(<<")">>)

WriteFunctionCallStandard(g, ast) ==
    (IF ast.intrinsic # "Undefined"
     THEN (IF IntrinsicToGLSLKeyword(ast.intrinsic) # <<>>
           THEN Write(IntrinsicToGLSLKeyword(ast.intrinsic))
           ELSE Error("failed to map intrinsic to GLSL keyword", ast.row))
     ELSE Write(<<ast.ident>>))
    \o Write(<<"(">>)
    \o WriteArguments(g, ast.arguments)
    \o Write(<<")">>)

VisitFunctionCall(g, ast) ==
    IF ast.intrinsic = "Mul"
    THEN WriteFunctionCallIntrinsicMul(g, ast)
    ELSE WriteFunctionCallStandard(g, ast)

VisitExpr(g, ast) ==
    CASE ast.type = "LiteralExpr" -> Write(<<ast.value>>)
      [] ast.type = "VarAccessExpr" ->
            Write(<<ast.ident>>)
            \o (IF ast.assignExpr # <<>>
                THEN Write(<<" ", ast.assignOp, " ">>) \o VisitExpr(g, ast.assignExpr[1])
                ELSE <<>>)
      [] ast.type = "TernaryExpr" ->
            VisitExpr(g, ast.condExpr) \o Write(<<" ? ">>) \o VisitExpr(g, ast.thenExpr)
            \o Write(<<" : ">>) \o VisitExpr(g, ast.elseExpr)
      [] ast.type = "BinaryExpr" ->
            VisitExpr(g, ast.lhsExpr) \o Write(<<" ", ast.op, " ">>) \o VisitExpr(g, ast.rhsExpr)
      [] ast.type = "UnaryExpr" -> Write(<<ast.op>>) \o VisitExpr(g, ast.expr)
      [] ast.type = "PostUnaryExpr" -> VisitExpr(g, ast.expr) \o Write(<<ast.op>>)
      [] ast.type = "FunctionCallExpr" -> VisitFunctionCall(g, ast.call)
      [] ast.type = "BracketExpr" -> Write(<<"(">>) \o VisitExpr(g, ast.expr) \o Write(<<")">>)
      [] ast.type = "SuffixExpr" ->
            WriteSuffixVarIdentBegin(g, ast.typeDenoter, ast.varIdent, ast.row)
            \o VisitExpr(g, ast.expr)
            \o WriteSuffixVarIdentEnd(g, ast.typeDenoter, ast.varIdent)

RECURSIVE WriteArrayDims(_, _)
WriteArrayDims(g, arrayDims) ==
    IF arrayDims = <<>> THEN <<>>
    ELSE Write(<<"[">>) \o VisitExpr(g, Head(arrayDims)) \o Write(<<"]">>)
         \o WriteArrayDims(g, Tail(arrayDims))

-----------------------------------------------------------------------------
(* Type denoters *)

\* the index of the first call of ops that raises an exception of a callee, or 0
FirstThrow(ops) ==
    LET hits == { i \in 1..Len(ops) : ops[i].op = "Throw" }
    IN  IF hits = {} THEN 0 ELSE CHOOSE i \in hits : \A j \in hits : i <= j

\* try { body } catch (const Report& e) { throw e; }
\*              catch (const std::exception& e) { Error(e.what(), ast); }
\* (a Report raised by Error inside body passes through unchanged as well)
CatchStdException(body, row) ==
    LET k == FirstThrow(body)
    IN  IF k = 0 \/ body[k].kind = "Report" THEN body
        ELSE SubSeq(body, 1, k - 1) \o Caught(body[k]) \o Error(body[k].msg, row)

\* try { body } catch (const std::exception& e) { Error(e.what()); }
\* Report and ASTRuntimeError are std::exceptions: the handlers of
\* GenerateCodePrimary and WriteTypeDenoter list them before std::exception
CatchAllAsError(body) ==
    LET k == FirstThrow(body)
    IN  IF k = 0 THEN body
        ELSE SubSeq(body, 1, k - 1) \o Caught(body[k]) \o Error(body[k].msg, NoPos)

WriteTypeDenoter(g, typeDenoter, row) ==
    CatchStdException(
        CASE typeDenoter.kind = "Void"   -> Write(<<"void">>)
          [] typeDenoter.kind = "Base"   -> WriteDataType(g, typeDenoter.dataType, row)
          [] typeDenoter.kind = "Struct" -> Write(<<typeDenoter.ident>>)
          [] OTHER -> Error("failed to determine GLSL data type", row),
        row)

-----------------------------------------------------------------------------
(* Declarations *)

VisitVarDecl(g, ast) ==
    Write(<<ast.ident>>)
    \o WriteArrayDims(g, ast.arrayDims)
    \o (IF ast.initializer # <<>>
        THEN Write(<<" = ">>) \o VisitExpr(g, ast.initializer[1])
        ELSE <<>>)

\* storage class -> GLSL keyword
StorageClassToGLSLKeyword(storageClass) ==
    CASE storageClass = "Static"  -> <<>>
      [] storageClass = "Shared"  -> <<"shared">>
      [] OTHER                    -> <<>>


-----------------------------------------------------------------------------
(* Output semantics of the entry point *)

RECURSIVE WriteOutputSemanticsSV(_)
\* the loop over outputSemantics.varDeclRefsSV of WriteOutputSemanticsAssignment
WriteOutputSemanticsSV(varDeclRefs) ==
    IF varDeclRefs = <<>> THEN <<>>
    ELSE LET varDecl == Head(varDeclRefs)
         IN  (IF varDecl.semantic.valid /\ SemanticToGLSLKeyword(varDecl.semantic) # <<>>
              THEN BeginLn
                   \o Write(SemanticToGLSLKeyword(varDecl.semantic) \o <<" = ", varDecl.ident, ";">>)
                   \o EndLn
              ELSE <<>>)
             \o WriteOutputSemanticsSV(Tail(varDeclRefs))

\* ast: <<>> for nullptr, <<expr>> otherwise
WriteOutputSemanticsAssignment(g, ast) ==
    LET entryPoint  == g.entryPointRef
        semantic    == entryPoint.semantic
        varDeclRefs == entryPoint.outputSemantics.varDeclRefsSV
    IN  IF varDeclRefs # <<>> THEN WriteOutputSemanticsSV(varDeclRefs)
        ELSE IF semantic.sv /\ ast # <<>> THEN
            IF SemanticToGLSLKeyword(semantic) # <<>>
            THEN BeginLn
                 \o Write(SemanticToGLSLKeyword(semantic)) \o Write(<<" = ">>)
                 \o VisitExpr(g, ast[1]) \o Write(<<";">>)
                 \o EndLn
            ELSE Error("failed to map output semantic to GLSL keyword", entryPoint.row)
        ELSE IF g.shaderTarget_ # "ComputeShader"
        THEN Error("missing output semantic", IF ast # <<>> THEN ast[1].row ELSE NoPos)
        ELSE <<>>

-----------------------------------------------------------------------------
(* Statements, structures and variable declaration statements *)

\* no variable is erased
FilterVarDecls_KeepAll(g, varDecls) ==
    varDecls

\* erase the variables whose code generation is disabled, and the system
\* values inside an interface block
RECURSIVE FilterVarDecls(_, _)
FilterVarDecls(g, varDecls) ==
    IF varDecls = <<>> THEN <<>>
    ELSE (IF \/ Head(varDecls).disableCodeGen
             \/ (g.isInsideInterfaceBlock_ /\ Head(varDecls).semantic.sv)
          THEN <<>> ELSE <<Head(varDecls)>>)
         \o FilterVarDecls(g, Tail(varDecls))

RECURSIVE WriteVarDecls(_, _)
WriteVarDecls(g, varDecls) ==
    IF varDecls = <<>> THEN <<>>
    ELSE VisitVarDecl(g, Head(varDecls))
         \o (IF Len(varDecls) > 1 THEN Write(<<", ">>) ELSE <<>>)
         \o WriteVarDecls(g, Tail(varDecls))

RECURSIVE WriteStorageClasses(_, _)
WriteStorageClasses(storageClasses, row) ==
    IF storageClasses = <<>> THEN <<>>
    ELSE (IF StorageClassToGLSLKeyword(Head(storageClasses)) # <<>>
          THEN Write(StorageClassToGLSLKeyword(Head(storageClasses)) \o <<" ">>)
          ELSE Error("not all storage classes or interpolation modifiers can be mapped to GLSL keyword", row))
         \o WriteStorageClasses(Tail(storageClasses), row)

RECURSIVE WriteTypeModifiers(_)
WriteTypeModifiers(typeModifiers) ==
    IF typeModifiers = <<>> THEN <<>>
    ELSE (IF Head(typeModifiers) = "const" THEN Write(<<"const", " ">>) ELSE <<>>)
         \o WriteTypeModifiers(Tail(typeModifiers))

RECURSIVE VisitStmnt(_, _)
RECURSIVE VisitStmnts(_, _)
RECURSIVE VisitVarType(_, _)
RECURSIVE VisitStructDecl(_, _, _)
RECURSIVE WriteStructDecl(_, _, _, _)
RECURSIVE WriteStructDeclMembers(_, _)
RECURSIVE WriteNestedStructs(_, _)
RECURSIVE VisitVarDeclStmnt(_, _)
RECURSIVE WriteScopedStmnt(_, _)
RECURSIVE VisitIfStmnt(_, _, _)

\* Visit(const std::vector<StmntPtr>&); the member variables a statement
\* assigns are read by the statements after it
VisitStmnts(g, stmnts) ==
    IF stmnts = <<>> THEN <<>>
    ELSE LET ops == VisitStmnt(g, Head(stmnts))
             g2  == [g EXCEPT
                        !.isInsideInterfaceBlock_ = ValueAfter(ops, "isInsideInterfaceBlock_", @),
                        !.isInsideEntryPoint_     = ValueAfter(ops, "isInsideEntryPoint_", @)]
         IN  ops \o VisitStmnts(g2, Tail(stmnts))

VisitVarType(g, ast) ==
    IF ast.structDecl # <<>>
    THEN VisitStructDecl(g, ast.structDecl[1], FALSE)
    ELSE WriteTypeDenoter(g, ast.typeDenoter, ast.row)

\* the nested structures of a root structure, first to last
RECURSIVE WriteNestedStructs_ParentToChild(_, _)
WriteNestedStructs_ParentToChild(g, nestedStructDeclRefs) ==
    IF nestedStructDeclRefs = <<>> THEN <<>>
    ELSE WriteStructDecl(g, Head(nestedStructDeclRefs), TRUE, TRUE)
         \o Blank
         \o WriteNestedStructs_ParentToChild(g, Tail(nestedStructDeclRefs))

\* the nested structures of a root structure, last to first
WriteNestedStructs(g, nestedStructDeclRefs) ==
    IF nestedStructDeclRefs = <<>> THEN <<>>
    ELSE LET n == Len(nestedStructDeclRefs)
         IN  WriteStructDecl(g, nestedStructDeclRefs[n], TRUE, TRUE)
             \o Blank
             \o WriteNestedStructs(g, SubSeq(nestedStructDeclRefs, 1, n - 1))

\* semicolon: *reinterpret_cast<bool*>(&args), the first byte of the pointer
\* args itself and not the bool it points to (g.argsBool); false when args is null
VisitStructDecl(g, ast, semicolon) ==
    IF ~MustResolveStruct(g, ast)
    THEN (IF ~ast.isNestedStruct
          THEN WriteNestedStructs(g, ast.nestedStructDeclRefs)
          ELSE <<>>)
         \o WriteStructDecl(g, ast, semicolon, FALSE)
    ELSE <<>>

WriteStructDeclMembers(g, ast) ==
    (IF ast.baseStructRef # <<>>
     THEN WriteStructDeclMembers(g, ast.baseStructRef[1])
     ELSE <<>>)
    \o VisitStmnts(g, ast.members)

WriteStructDecl(g, ast, writeSemicolon, allowNestedStruct) ==
    IF ~ast.isNestedStruct \/ allowNestedStruct THEN
        IF ast.isShaderInput \/ ast.isShaderOutput THEN
            BeginLn
            \o Write(<<IF ast.isShaderInput THEN "in " ELSE "out ">>)
            \o Write(<<ast.ident>>)
            \o EndLn
            \o OpenScope
            \o Set("isInsideInterfaceBlock_", TRUE)
            \o VisitStmnts([g EXCEPT !.isInsideInterfaceBlock_ = TRUE], ast.members)
            \o Set("isInsideInterfaceBlock_", FALSE)
            \o CloseScope(FALSE)
            \o WriteLn(<<ast.aliasName, ";">>)
        ELSE
            BeginLn
            \o Write(<<"struct">>)
            \o (IF ast.ident # "" THEN Write(<<" ", ast.ident>>) ELSE <<>>)
            \o EndLn
            \o OpenScope
            \o WriteStructDeclMembers(g, ast)
            \o CloseScope(writeSemicolon)
    ELSE IF ~writeSemicolon
    THEN BeginLn \o Write(<<ast.ident, " ">>)
    ELSE <<>>

VisitVarDeclStmnt(g, ast) ==
    LET varDecls == FilterVarDecls(g, ast.varDecls)
    IN  IF varDecls = <<>> THEN <<>>
        ELSE
            BeginLn
            \o (IF ast.isShaderInput THEN Write(<<"in ">>)
                ELSE IF ast.isShaderOutput THEN Write(<<"out ">>)
                ELSE <<>>)
            \o WriteStorageClasses(ast.storageClasses, ast.row)
            \o WriteTypeModifiers(ast.typeModifiers)
            \o (IF ast.varType.structDecl # <<>>
                THEN VisitVarType(g, ast.varType) \o BeginLn
                ELSE VisitVarType(g, ast.varType) \o Write(<<" ">>))
            \o WriteVarDecls(g, varDecls)
            \o Write(<<";">>)
            \o EndLn

VisitReturnStmnt(g, ast) ==
    IF g.isInsideEntryPoint_ THEN
        WriteOutputSemanticsAssignment(g, ast.expr)
        \o (IF ~ast.isEndOfFunction THEN WriteLn(<<"return;">>) ELSE <<>>)
    ELSE IF ast.expr # <<>> THEN
        BeginLn
        \o Write(<<"return ">>) \o VisitExpr(g, ast.expr[1]) \o Write(<<";">>)
        \o EndLn
    ELSE IF ~ast.isEndOfFunction THEN WriteLn(<<"return;">>)
    ELSE <<>>

VisitStmnt(g, ast) ==
    CASE ast.type = "VarDeclStmnt" -> VisitVarDeclStmnt(g, ast)
      [] ast.type = "NullStmnt" -> WriteLn(<<";">>)
      [] ast.type = "ExprStmnt" ->
            BeginLn \o VisitExpr(g, ast.expr) \o Write(<<";">>) \o EndLn
      [] ast.type = "ReturnStmnt" -> VisitReturnStmnt(g, ast)
      [] ast.type = "CtrlTransferStmnt" -> WriteLn(<<ast.transfer, ";">>)
      [] ast.type = "CodeBlockStmnt" ->
            OpenScope \o VisitStmnts(g, ast.stmnts) \o CloseScope(FALSE)
      [] ast.type = "ForLoopStmnt" ->
            BeginLn
            \o Write(<<"for (">>)
            \o PushOptions(FALSE, FALSE)
            \o VisitStmnts(g, ast.initSmnt)
            \o Write(<<" ">>)
            \o (IF ast.condition # <<>> THEN VisitExpr(g, ast.condition[1]) ELSE <<>>)
            \o Write(<<"; ">>)
            \o (IF ast.iteration # <<>> THEN VisitExpr(g, ast.iteration[1]) ELSE <<>>)
            \o PopOptions
            \o Write(<<")">>)
            \o EndLn
            \o WriteScopedStmnt(g, ast.bodyStmnt)
      [] ast.type = "WhileLoopStmnt" ->
            BeginLn
            \o Write(<<"while (">>) \o VisitExpr(g, ast.condition) \o Write(<<")">>)
            \o EndLn
            \o WriteScopedStmnt(g, ast.bodyStmnt)
      [] ast.type = "DoWhileLoopStmnt" ->
            WriteLn(<<"do">>)
            \o WriteScopedStmnt(g, ast.bodyStmnt)
            \o BeginLn
            \o Write(<<"while (">>) \o VisitExpr(g, ast.condition) \o Write(<<");">>)
            \o EndLn
      [] ast.type = "IfStmnt" -> VisitIfStmnt(g, ast, FALSE)
      [] ast.type = "ElseStmnt" ->
            IF ast.bodyStmnt.type = "IfStmnt"
            THEN BeginLn \o Write(<<"else ">>) \o VisitIfStmnt(g, ast.bodyStmnt, g.argsBool)
            ELSE WriteLn(<<"else">>) \o WriteScopedStmnt(g, ast.bodyStmnt)
      [] ast.type = "SwitchStmnt" ->
            BeginLn
            \o Write(<<"switch (">>) \o VisitExpr(g, ast.selector) \o Write(<<")">>)
            \o EndLn
            \o OpenScope \o VisitStmnts(g, ast.cases) \o CloseScope(FALSE)
      [] ast.type = "SwitchCase" ->
            (IF ast.expr # <<>>
             THEN BeginLn \o Write(<<"case ">>) \o VisitExpr(g, ast.expr[1]) \o Write(<<":">>) \o EndLn
             ELSE WriteLn(<<"default:">>))
            \o IncIndent \o VisitStmnts(g, ast.stmnts) \o DecIndent

\* hasElseParentNode: false when args is null; else the byte read through
\* *reinterpret_cast<bool*>(&args), the first byte of the pointer args itself
VisitIfStmnt(g, ast, hasElseParentNode) ==
    (IF ~hasElseParentNode THEN BeginLn ELSE <<>>)
    \o Write(<<"if (">>) \o VisitExpr(g, ast.condition) \o Write(<<")">>)
    \o EndLn
    \o WriteScopedStmnt(g, ast.bodyStmnt)
    \o VisitStmnts(g, ast.elseStmnt)

\* the indentation of the single statement is not taken back
WriteScopedStmnt_NoDecIndent(g, ast) ==
    IF ast.type # "CodeBlockStmnt"
    THEN IncIndent \o VisitStmnt(g, ast)
    ELSE VisitStmnt(g, ast)

WriteScopedStmnt(g, ast) ==
    IF ast.type # "CodeBlockStmnt"
    THEN IncIndent \o VisitStmnt(g, ast) \o DecIndent
    ELSE VisitStmnt(g, ast)


-----------------------------------------------------------------------------
(* Input and output semantics of the entry point *)

RECURSIVE WriteLocalInputSemanticsVarDecls(_, _)
WriteLocalInputSemanticsVarDecls(g, varDeclRefs) ==
    IF varDeclRefs = <<>> THEN <<>>
    ELSE LET varDecl == Head(varDeclRefs)
         IN  (IF varDecl.semantic.valid
              THEN IF SemanticToGLSLKeyword(varDecl.semantic) # <<>>
                   THEN BeginLn
                        \o VisitVarType(g, varDecl.varType)
                        \o Write(<<" ", varDecl.ident, " = ">>
                                 \o SemanticToGLSLKeyword(varDecl.semantic) \o <<";">>)
                        \o EndLn
                   ELSE Error("failed to map semantic name to GLSL keyword", varDecl.row)
              ELSE <<>>)
             \o WriteLocalInputSemanticsVarDecls(g, Tail(varDeclRefs))

WriteLocalInputSemantics(g) ==
    LET varDeclRefs == g.entryPointRef.inputSemantics.varDeclRefsSV
    IN  WriteLocalInputSemanticsVarDecls(g, varDeclRefs)
        \o (IF \E i \in 1..Len(varDeclRefs) : varDeclRefs[i].semantic.valid
            THEN Blank ELSE <<>>)

RECURSIVE WriteGlobalInputSemanticsVarDecls(_, _)
WriteGlobalInputSemanticsVarDecls(g, varDeclRefs) ==
    IF varDeclRefs = <<>> THEN <<>>
    ELSE LET varDecl == Head(varDeclRefs)
         IN  BeginLn
             \o Write(<<"in ">>)
             \o VisitVarType(g, varDecl.varType)
             \o Write(<<" ", varDecl.ident, ";">>)
             \o EndLn
             \o WriteGlobalInputSemanticsVarDecls(g, Tail(varDeclRefs))

WriteGlobalInputSemantics(g) ==
    LET varDeclRefs == g.entryPointRef.inputSemantics.varDeclRefs
    IN  WriteGlobalInputSemanticsVarDecls(g, varDeclRefs)
        \o (IF varDeclRefs # <<>> THEN Blank ELSE <<>>)

RECURSIVE WriteLocalOutputSemanticsVarDecls(_, _)
WriteLocalOutputSemanticsVarDecls(g, varDeclRefs) ==
    IF varDeclRefs = <<>> THEN <<>>
    ELSE LET varDecl == Head(varDeclRefs)
         IN  BeginLn
             \o VisitVarType(g, varDecl.varType)
             \o Write(<<" ", varDecl.ident, ";">>)
             \o EndLn
             \o WriteLocalOutputSemanticsVarDecls(g, Tail(varDeclRefs))

WriteLocalOutputSemantics(g) ==
    LET varDeclRefs == g.entryPointRef.outputSemantics.varDeclRefsSV
    IN  WriteLocalOutputSemanticsVarDecls(g, varDeclRefs)
        \o (IF varDeclRefs # <<>> THEN Blank ELSE <<>>)

RECURSIVE WriteGlobalOutputSemanticsVarDecls(_, _)
WriteGlobalOutputSemanticsVarDecls(g, varDeclRefs) ==
    IF varDeclRefs = <<>> THEN <<>>
    ELSE LET varDecl == Head(varDeclRefs)
         IN  BeginLn
             \o (IF varDecl.semantic.valid
                 THEN Write(<<"layout(location = ">> \o to_string(varDecl.semantic.index)
                            \o <<") out ">>)
                 ELSE Write(<<"out ">>))
             \o VisitVarType(g, varDecl.varType)
             \o Write(<<" ", varDecl.ident, ";">>)
             \o EndLn
             \o WriteGlobalOutputSemanticsVarDecls(g, Tail(varDeclRefs))

WriteGlobalOutputSemantics(g) ==
    LET varDeclRefs == g.entryPointRef.outputSemantics.varDeclRefs
    IN  WriteGlobalOutputSemanticsVarDecls(g, varDeclRefs)
        \o (IF varDeclRefs # <<>> THEN Blank ELSE <<>>)

-----------------------------------------------------------------------------
(* Declaration statements *)

WriteParameter(g, ast) ==
    (IF ast.inputModifier # "" THEN Write(<<ast.inputModifier, " ">>) ELSE <<>>)
    \o WriteTypeModifiers(ast.typeModifiers)
    \o VisitVarType(g, ast.varType)
    \o Write(<<" ">>)
    \o (IF Len(ast.varDecls) = 1
        THEN VisitVarDecl(g, ast.varDecls[1])
        ELSE Error("invalid number of variables in function parameter", ast.row))

RECURSIVE WriteParameters(_, _)
WriteParameters(g, parameters) ==
    IF parameters = <<>> THEN <<>>
    ELSE WriteParameter(g, Head(parameters))
         \o (IF Len(parameters) > 1 THEN Write(<<", ">>) ELSE <<>>)
         \o WriteParameters(g, Tail(parameters))

\* the unreachable function with a non-return control path reports an error
VisitFunctionDecl_ErrorWhenUnreachable(g, ast) ==
    IF ~ast.isReachable THEN
        IF ast.hasNonReturnControlPath
        THEN Error("not all control paths in unreferenced function return a value", ast.row)
        ELSE <<>>
    ELSE
        (IF ast.hasNonReturnControlPath
         THEN Error("not all control paths in function return a value", ast.row)
         ELSE <<>>)
        \o Line(g, ast.row)
        \o BeginLn
        \o (IF ast.isEntryPoint THEN Write(<<"void main()">>)
            ELSE VisitVarType(g, ast.returnType)
                 \o Write(<<" ", ast.ident, "(">>)
                 \o WriteParameters(g, ast.parameters)
                 \o Write(<<")">>)
                 \o (IF ast.codeBlock = <<>> THEN Write(<<";">>) ELSE <<>>))
        \o EndLn
        \o (IF ast.codeBlock # <<>> THEN
                IF ast.isEntryPoint THEN
                    LET stmnts == ast.codeBlock[1].stmnts
                    IN  OpenScope
                        \o WriteLocalInputSemantics(g)
                        \o WriteLocalOutputSemantics(g)
                        \o Set("isInsideEntryPoint_", TRUE)
                        \o VisitStmnts([g EXCEPT !.isInsideEntryPoint_ = TRUE], stmnts)
                        \o Set("isInsideEntryPoint_", FALSE)
                        \o (IF stmnts = <<>> \/ stmnts[Len(stmnts)].type # "ReturnStmnt"
                            THEN WriteOutputSemanticsAssignment(g, <<>>)
                            ELSE <<>>)
                        \o CloseScope(FALSE)
                ELSE OpenScope \o VisitStmnts(g, ast.codeBlock[1].stmnts) \o CloseScope(FALSE)
            ELSE <<>>)
        \o Blank

VisitFunctionDecl(g, ast) ==
    IF ~ast.isReachable THEN
        IF ast.hasNonReturnControlPath
        THEN Warning("not all control paths in unreferenced function return a value", ast.row)
        ELSE <<>>
    ELSE
        (IF ast.hasNonReturnControlPath
         THEN Error("not all control paths in function return a value", ast.row)
         ELSE <<>>)
        \o Line(g, ast.row)
        \o BeginLn
        \o (IF ast.isEntryPoint THEN Write(<<"void main()">>)
            ELSE VisitVarType(g, ast.returnType)
                 \o Write(<<" ", ast.ident, "(">>)
                 \o WriteParameters(g, ast.parameters)
                 \o Write(<<")">>)
                 \o (IF ast.codeBlock = <<>> THEN Write(<<";">>) ELSE <<>>))
        \o EndLn
        \o (IF ast.codeBlock # <<>> THEN
                IF ast.isEntryPoint THEN
                    LET stmnts == ast.codeBlock[1].stmnts
                    IN  OpenScope
                        \o WriteLocalInputSemantics(g)
                        \o WriteLocalOutputSemantics(g)
                        \o Set("isInsideEntryPoint_", TRUE)
                        \o VisitStmnts([g EXCEPT !.isInsideEntryPoint_ = TRUE], stmnts)
                        \o Set("isInsideEntryPoint_", FALSE)
                        \o (IF stmnts = <<>> \/ stmnts[Len(stmnts)].type # "ReturnStmnt"
                            THEN WriteOutputSemanticsAssignment(g, <<>>)
                            ELSE <<>>)
                        \o CloseScope(FALSE)
                ELSE OpenScope \o VisitStmnts(g, ast.codeBlock[1].stmnts) \o CloseScope(FALSE)
            ELSE <<>>)
        \o Blank

\* the binding of the first register, whatever its target
VisitBufferDeclStmnt_FirstRegister(g, ast) ==
    IF ~ast.isReachable THEN <<>>
    ELSE
        Line(g, ast.row)
        \o BeginLn
        \o Write(<<"layout(std140">>)
        \o (LET slotRegister == IF ast.slotRegisters = <<>> THEN <<>>
                                ELSE <<Head(ast.slotRegisters)>>
            IN  IF slotRegister # <<>>
                THEN Write(<<", binding = ">> \o to_string(slotRegister[1].slot))
                ELSE <<>>)
        \o Write(<<") uniform ">>)
        \o Write(<<ast.ident>>)
        \o EndLn
        \o OpenScope
        \o VisitStmnts(g, ast.members)
        \o CloseScope(TRUE)
        \o Blank

VisitBufferDeclStmnt(g, ast) ==
    IF ~ast.isReachable THEN <<>>
    ELSE
        Line(g, ast.row)
        \o BeginLn
        \o Write(<<"layout(std140">>)
        \o (LET slotRegister == GetForTarget(ast.slotRegisters, g.shaderTarget_)
            IN  IF slotRegister # <<>>
                THEN Write(<<", binding = ">> \o to_string(slotRegister[1].slot))
                ELSE <<>>)
        \o Write(<<") uniform ">>)
        \o Write(<<ast.ident>>)
        \o EndLn
        \o OpenScope
        \o VisitStmnts(g, ast.members)
        \o CloseScope(TRUE)
        \o Blank

\* samplerType: the keyword, or <<"?">> for what a null pointer dereferences to
RECURSIVE WriteTextureDecls(_, _, _)
WriteTextureDecls(g, textureDecls, samplerType) ==
    IF textureDecls = <<>> THEN <<>>
    ELSE LET texDecl == Head(textureDecls)
         IN  (IF texDecl.isReachable THEN
                  LET binding      == -1
                      slotRegister == GetForTarget(texDecl.slotRegisters, g.shaderTarget_)
                  IN  BeginLn
                      \o (IF slotRegister # <<>>
                          THEN Write(<<"layout(binding = ">> \o to_string(slotRegister[1].slot)
                                     \o <<") ">>)
                          ELSE <<>>)
                      \o Write(<<"uniform ">> \o samplerType \o <<" ", texDecl.ident, ";">>)
                      \o (IF g.stats_ THEN PushStat(texDecl.ident, binding) ELSE <<>>)
                      \o EndLn
              ELSE <<>>)
             \o WriteTextureDecls(g, Tail(textureDecls), samplerType)

\* After Error returns, *samplerType dereferences a null pointer: the process
\* dies at the first reachable texture, or reads whatever is there (g.ub).
VisitTextureDeclStmnt(g, ast) ==
    IF ~ast.isReachable THEN <<>>
    ELSE LET samplerType == BufferTypeToGLSLKeyword(ast.textureType)
             reachable   == \E i \in 1..Len(ast.textureDecls) : ast.textureDecls[i].isReachable
         IN  IF samplerType # <<>>
             THEN WriteTextureDecls(g, ast.textureDecls, samplerType) \o Blank
             ELSE Error("failed to map texture type to GLSL sampler type", ast.row)
                  \o (IF reachable /\ g.ub = "crash"
                      THEN BeginLn \o Crash
                      ELSE WriteTextureDecls(g, ast.textureDecls, <<"?">>) \o Blank)

VisitStructDeclStmnt(g, ast) ==
    IF ~ast.structDecl.isReachable THEN <<>>
    ELSE IF ~MustResolveStruct(g, ast.structDecl)
    THEN Line(g, ast.row)
         \o VisitStructDecl(g, ast.structDecl, g.argsBool)
         \o Blank
    ELSE <<>>

VisitAliasDeclStmnt(g, ast) ==
    IF ast.structDecl # <<>> /\ ast.structDecl[1].ident # ""
    THEN Line(g, ast.row)
         \o VisitStructDecl(g, ast.structDecl[1], g.argsBool)
         \o Blank
    ELSE <<>>


-----------------------------------------------------------------------------
(* Attributes, helper intrinsics, version and extensions *)

WriteAttributeNumThreads(g, ast) ==
    IF Len(ast.arguments) = 3
    THEN BeginLn
         \o Write(<<"layout(local_size_x = ">>) \o VisitExpr(g, ast.arguments[1])
         \o Write(<<", local_size_y = ">>)    \o VisitExpr(g, ast.arguments[2])
         \o Write(<<", local_size_z = ">>)    \o VisitExpr(g, ast.arguments[3])
         \o Write(<<") in;">>)
         \o EndLn
    ELSE Error("invalid number of arguments for \"numthreads\" attribute", ast.row)

WriteAttributeEarlyDepthStencil == WriteLn(<<"layout(early_fragment_tests) in;">>)

WriteAttribute(g, ast) ==
    IF ast.ident = "numthreads" THEN WriteAttributeNumThreads(g, ast)
    ELSE IF ast.ident = "earlydepthstencil" THEN WriteAttributeEarlyDepthStencil
    ELSE <<>>

RECURSIVE WriteAttributes(_, _)
WriteAttributes(g, attribs) ==
    IF attribs = <<>> THEN <<>>
    ELSE WriteAttribute(g, Head(attribs)) \o WriteAttributes(g, Tail(attribs))

WriteClipIntrinsics ==
    WriteLn(<<"void clip(float x) { if (x < 0.0) discard; }">>)
    \o WriteLn(<<"void clip(", "vec2", " x) { if (any(lessThan(x, ", "vec2", "(0.0)))) discard; }">>)
    \o WriteLn(<<"void clip(", "vec3", " x) { if (any(lessThan(x, ", "vec3", "(0.0)))) discard; }">>)
    \o WriteLn(<<"void clip(", "vec4", " x) { if (any(lessThan(x, ", "vec4", "(0.0)))) discard; }">>)
    \o Blank

WriteReferencedIntrinsics(ast) ==
    IF "Clip" \in ast.usedIntrinsics THEN WriteClipIntrinsics ELSE <<>>

\* a pass that is not part of the emitter is called: it returns, or raises
\* what the environment env makes it raise
Pass(name) == <<[op |-> "Pass", name |-> name]>>

CallPass(env, name) ==
    Pass(name)
    \o (IF env.failPass = name THEN Throw(env.failKind, "pass failed", env.failRow) ELSE <<>>)

\* GLSLExtensionAgent::DetermineRequiredExtensions: the extensions the program
\* needs, in the order of the std::set; an error when they are not allowed
DetermineRequiredExtensions(env, ast, allowExtensions) ==
    Pass("D")
    \o (IF env.failPass = "D" \/ (ast.requiredExtensions # <<>> /\ ~allowExtensions)
        THEN Throw(env.failKind, "extension required", env.failRow)
        ELSE <<>>)

RECURSIVE WriteExtensions(_)
WriteExtensions(exts) ==
    IF exts = <<>> THEN <<>>
    ELSE WriteExtension(Head(exts)) \o WriteExtensions(Tail(exts))

\* the version line is written before the extension agent runs
WriteVersionAndExtensions_VersionFirst(g, env, ast) ==
    CatchAllAsError(
        Version(g.versionOut_)
        \o DetermineRequiredExtensions(env, ast, g.allowExtensions_)
        \o Blank
        \o (IF ast.requiredExtensions # <<>>
            THEN WriteExtensions(ast.requiredExtensions) \o Blank
            ELSE <<>>))

WriteVersionAndExtensions(g, env, ast) ==
    CatchAllAsError(
        DetermineRequiredExtensions(env, ast, g.allowExtensions_)
        \o Version(g.versionOut_)
        \o Blank
        \o (IF ast.requiredExtensions # <<>>
            THEN WriteExtensions(ast.requiredExtensions) \o Blank
            ELSE <<>>))

\* the helper intrinsics are written after the global in and out declarations
VisitProgram_IntrinsicsLast(g, env, ast) ==
    WriteVersionAndExtensions(g, env, ast)
    \o (IF g.shaderTarget_ = "FragmentShader"
        THEN BeginLn
             \o Write(<<"layout(origin_upper_left">>)
             \o (IF ast.hasSM3ScreenSpace THEN Write(<<", pixel_center_integer">>) ELSE <<>>)
             \o Write(<<") in vec4 gl_FragCoord;">>)
             \o EndLn
             \o Blank
        ELSE <<>>)
    \o (IF ast.entryPointRef[1].attribs # <<>>
        THEN WriteAttributes(g, ast.entryPointRef[1].attribs) \o Blank
        ELSE <<>>)
    \o (IF g.shaderTarget_ = "VertexShader" THEN WriteGlobalInputSemantics(g)
        ELSE IF g.shaderTarget_ = "FragmentShader" THEN WriteGlobalOutputSemantics(g)
        ELSE <<>>)
    \o WriteReferencedIntrinsics(ast)

\* VisitProgram up to the visit of the global statements
VisitProgram(g, env, ast) ==
    WriteVersionAndExtensions(g, env, ast)
    \o (IF g.shaderTarget_ = "FragmentShader"
        THEN BeginLn
             \o Write(<<"layout(origin_upper_left">>)
             \o (IF ast.hasSM3ScreenSpace THEN Write(<<", pixel_center_integer">>) ELSE <<>>)
             \o Write(<<") in vec4 gl_FragCoord;">>)
             \o EndLn
             \o Blank
        ELSE <<>>)
    \o (IF ast.entryPointRef[1].attribs # <<>>
        THEN WriteAttributes(g, ast.entryPointRef[1].attribs) \o Blank
        ELSE <<>>)
    \o WriteReferencedIntrinsics(ast)
    \o (IF g.shaderTarget_ = "VertexShader" THEN WriteGlobalInputSemantics(g)
        ELSE IF g.shaderTarget_ = "FragmentShader" THEN WriteGlobalOutputSemantics(g)
        ELSE <<>>)

\* the reading of the clock is written in the second comment as well
WriteHeader_TimeInTitle(g, inputDesc, now) ==
    (IF inputDesc.entryPoint = ""
     THEN Comment(<<"GLSL ", TargetToString(g.shaderTarget_)>>)
     ELSE Comment(<<"GLSL ", TargetToString(g.shaderTarget_), " \"", inputDesc.entryPoint, "\"">>))
    \o Comment(<<"Generated by XShaderCompiler">> \o to_string(now))
    \o Comment(<<"TimePoint">> \o to_string(now))
    \o Blank

\* the header comments of GenerateCodePrimary; now: the reading of the clock
WriteHeader(g, inputDesc, now) ==
    (IF inputDesc.entryPoint = ""
     THEN Comment(<<"GLSL ", TargetToString(g.shaderTarget_)>>)
     ELSE Comment(<<"GLSL ", TargetToString(g.shaderTarget_), " \"", inputDesc.entryPoint, "\"">>))
    \o Comment(<<"Generated by XShaderCompiler">>)
    \o Comment(<<"TimePoint">> \o to_string(now))
    \o Blank

-----------------------------------------------------------------------------
(* The Generator base class: the effect of a call on the emitter state *)

NoExc == [kind |-> "None", msg |-> "", row |-> NoPos]

\* conditions that always raise a structured report
Unrecoverable == {"entry point not found"}

RECURSIVE Indentation(_)
Indentation(n) == IF n = 0 THEN <<>> ELSE <<"    ">> \o Indentation(n - 1)

\* the options in force: those pushed last, or the defaults
CurrentOptions(st) ==
    IF st.options = <<>> THEN [allowBlanks |-> TRUE, allowLineSeparation |-> TRUE]
    ELSE st.options[Len(st.options)]

\* st: [sink, cur, lineOpen and lnFaults, options, indent, log, textures, passes,
\*      raised, exc, gen]
ApplyOp(st, o, errorsAbort) ==
    CASE o.op = "BeginLn" ->
            IF ~CurrentOptions(st).allowLineSeparation THEN st
            ELSE [st EXCEPT !.cur = @ \o Indentation(st.indent), !.lineOpen = TRUE,
                            !.lnFaults = IF st.lineOpen THEN @ + 1 ELSE @]
      [] o.op = "Write" -> [st EXCEPT !.cur = Append(@, o.s)]
      [] o.op = "EndLn" ->
            IF ~CurrentOptions(st).allowLineSeparation THEN st
            ELSE [st EXCEPT !.sink = Append(@, st.cur), !.cur = <<>>, !.lineOpen = FALSE,
                            !.lnFaults = IF st.lineOpen THEN @ ELSE @ + 1]
      [] o.op = "Blank" ->
            IF ~CurrentOptions(st).allowBlanks THEN st
            ELSE [st EXCEPT !.sink = Append(@, st.cur), !.cur = <<>>]
      [] o.op = "PushOptions" ->
            [st EXCEPT !.options = Append(@, [allowBlanks |-> o.allowBlanks,
                                              allowLineSeparation |-> o.allowLineSeparation])]
      [] o.op = "PopOptions" ->
            [st EXCEPT !.options = IF @ = <<>> THEN @ ELSE SubSeq(@, 1, Len(@) - 1)]
      [] o.op = "IncIndent" -> [st EXCEPT !.indent = @ + 1]
      [] o.op = "DecIndent" -> [st EXCEPT !.indent = IF @ > 0 THEN @ - 1 ELSE 0]
      [] o.op = "Error" ->
            IF errorsAbort \/ o.msg \in Unrecoverable
            THEN [st EXCEPT !.exc = [kind |-> "Report", msg |-> o.msg, row |-> o.row],
                            !.raised = Append(@, [kind |-> "Report", msg |-> o.msg, row |-> o.row])]
            ELSE [st EXCEPT !.log = Append(@, [type |-> "Error", msg |-> o.msg, row |-> o.row])]
      [] o.op = "Warning" ->
            [st EXCEPT !.log = Append(@, [type |-> "Warning", msg |-> o.msg, row |-> o.row])]
      [] o.op = "Throw" ->
            [st EXCEPT !.exc = [kind |-> o.kind, msg |-> o.msg, row |-> o.row],
                       !.raised = Append(@, [kind |-> o.kind, msg |-> o.msg, row |-> o.row])]
      [] o.op = "Caught" ->
            [st EXCEPT !.raised = Append(@, [kind |-> o.kind, msg |-> o.msg, row |-> o.row])]
      [] o.op = "Crash" ->
            [st EXCEPT !.exc = [kind |-> "Crash", msg |-> "", row |-> NoPos]]
      [] o.op = "Stat" ->
            [st EXCEPT !.textures = Append(@, [ident |-> o.ident, binding |-> o.binding])]
      [] o.op = "Pass" ->
            [st EXCEPT !.passes = Append(@, [name |-> o.name, written |-> Len(st.sink)])]
      [] o.op = "Set" -> [st EXCEPT !.gen = [@ EXCEPT ![o.var] = o.val]]

\* the calls ops in order, up to the first one that raises
RECURSIVE Apply(_, _, _)
Apply(st, ops, errorsAbort) ==
    IF ops = <<>> \/ st.exc # NoExc THEN st
    ELSE Apply(ApplyOp(st, Head(ops), errorsAbort), Tail(ops), errorsAbort)


-----------------------------------------------------------------------------
(* Programs: the syntax trees the generation is checked on *)

Targets == {"VertexShader", "FragmentShader", "ComputeShader"}

ExceptionKinds == {"Report", "ASTRuntimeError", "std::exception"}

NoSemantic == [valid |-> FALSE, sv |-> FALSE, index |-> 0, name |-> ""]
UserSemantic(name, index) == [valid |-> TRUE, sv |-> FALSE, index |-> index, name |-> name]
SystemValue(name) == [valid |-> TRUE, sv |-> TRUE, index |-> 0, name |-> name]

BaseType(dataType) == [kind |-> "Base", dataType |-> dataType]
VarType(row, typeDenoter) == [row |-> row, structDecl |-> <<>>, typeDenoter |-> typeDenoter]
StructVarType(row, structDecl) ==
    [row |-> row, structDecl |-> <<structDecl>>,
     typeDenoter |-> [kind |-> "Struct", ident |-> structDecl.ident]]

Literal(row, value) == [type |-> "LiteralExpr", row |-> row, value |-> value]
VarAccess(row, ident) ==
    [type |-> "VarAccessExpr", row |-> row, ident |-> ident, assignOp |-> "", assignExpr |-> <<>>]
Assign(row, ident, expr) ==
    [type |-> "VarAccessExpr", row |-> row, ident |-> ident, assignOp |-> "=", assignExpr |-> <<expr>>]

VarDecl(row, ident, disableCodeGen, semantic) ==
    [ident |-> ident, row |-> row, disableCodeGen |-> disableCodeGen, semantic |-> semantic,
     arrayDims |-> <<>>, initializer |-> <<>>]

\* a variable of the entry point's semantics, with the type of its statement
VarDeclRef(row, ident, semantic, dataType) ==
    [ident |-> ident, row |-> row, semantic |-> semantic,
     varType |-> VarType(row, BaseType(dataType))]

VarDeclStmnt(row, isReachable, isShaderInput, isShaderOutput, varType, varDecls) ==
    [type |-> "VarDeclStmnt", row |-> row, isReachable |-> isReachable,
     isShaderInput |-> isShaderInput, isShaderOutput |-> isShaderOutput,
     inputModifier |-> "", storageClasses |-> <<>>, typeModifiers |-> <<>>,
     varType |-> varType, varDecls |-> varDecls]

StructDecl(row, ident, isReachable, isNestedStruct, isShaderInput, isShaderOutput, members, nestedStructDeclRefs) ==
    [ident |-> ident, row |-> row, aliasName |-> "alias", isReachable |-> isReachable,
     isNestedStruct |-> isNestedStruct, isShaderInput |-> isShaderInput,
     isShaderOutput |-> isShaderOutput, baseStructRef |-> <<>>,
     members |-> members, nestedStructDeclRefs |-> nestedStructDeclRefs]

Register(type, shaderTarget, slot) ==
    [type |-> type, shaderTarget |-> shaderTarget, slot |-> slot]

\* the register lists of a declaration whose registers are of the given type
RegisterLists(type) ==
    {<<>>}
    \cup { <<Register(type, t, s)>> : t \in {"Undefined", "VertexShader"}, s \in 0..MaxSlot }
    \cup { <<Register(type, "FragmentShader", 0), Register(type, "VertexShader", MaxSlot)>> }

FloatMember(row, ident, isReachable) ==
    VarDeclStmnt(row, isReachable, FALSE, FALSE, VarType(row, BaseType("Float4")),
                 <<VarDecl(row, ident, FALSE, NoSemantic)>>)

(* function declarations: "f" *)
FunctionBody == <<[stmnts |-> <<[type |-> "ExprStmnt", row |-> 3, expr |-> Assign(3, "a", Literal(3, "1.0"))],
                               [type |-> "ReturnStmnt", row |-> 4, expr |-> <<VarAccess(4, "a")>>,
                                isEndOfFunction |-> TRUE]>>]>>

FunctionDecl(isReachable, hasNonReturnControlPath, codeBlock) ==
    [type |-> "FunctionDecl", ident |-> "f", row |-> 2, isReachable |-> isReachable,
     hasNonReturnControlPath |-> hasNonReturnControlPath, isEntryPoint |-> FALSE,
     returnType |-> VarType(2, BaseType("Float")),
     parameters |-> <<[FloatMember(2, "a", isReachable) EXCEPT !.inputModifier = "in"]>>,
     codeBlock |-> codeBlock, attribs |-> <<>>, semantic |-> NoSemantic,
     inputSemantics |-> [varDeclRefs |-> <<>>, varDeclRefsSV |-> <<>>],
     outputSemantics |-> [varDeclRefs |-> <<>>, varDeclRefsSV |-> <<>>]]

FunctionDecls ==
    { FunctionDecl(TRUE, n, c) : n \in BOOLEAN, c \in {<<>>, FunctionBody} }
    \cup { FunctionDecl(FALSE, n, FunctionBody) : n \in BOOLEAN }

(* uniform buffers: "Globals" *)
BufferDeclStmnt(isReachable, slotRegisters) ==
    [type |-> "BufferDeclStmnt", ident |-> "Globals", row |-> 5, isReachable |-> isReachable,
     slotRegisters |-> slotRegisters, members |-> <<FloatMember(6, "wvp", isReachable)>>]

BufferDeclStmnts ==
    { BufferDeclStmnt(TRUE, r) : r \in RegisterLists("b") \cup {<<Register("t", "Undefined", 0)>>} }
    \cup { BufferDeclStmnt(FALSE, <<Register("b", "Undefined", 0)>>) }

(* textures: "texA", "texB" in one statement *)
TextureDecl(ident, isReachable, slotRegisters) ==
    [ident |-> ident, isReachable |-> isReachable, slotRegisters |-> slotRegisters]

TextureDeclStmnt(isReachable, textureType, textureDecls) ==
    [type |-> "TextureDeclStmnt", row |-> 7, isReachable |-> isReachable,
     textureType |-> textureType, textureDecls |-> textureDecls]

TextureDeclStmnts ==
    { TextureDeclStmnt(TRUE, "Texture2D",
                       <<TextureDecl("texA", TRUE, r),
                         TextureDecl("texB", TRUE, <<Register("t", "FragmentShader", MaxSlot)>>)>>) :
          r \in RegisterLists("t") \cup {<<Register("b", "Undefined", 0)>>} }
    \cup { TextureDeclStmnt(TRUE, "Texture2D",
                            <<TextureDecl("texA", FALSE, <<Register("t", "Undefined", 0)>>),
                              TextureDecl("texB", TRUE, <<>>)>>) }
    \cup { TextureDeclStmnt(TRUE, "Undefined",
                            <<TextureDecl("texA", b, <<Register("t", "Undefined", 0)>>)>>) :
              b \in BOOLEAN }
    \cup { TextureDeclStmnt(FALSE, "Texture2D",
                            <<TextureDecl("texA", FALSE, <<Register("t", "Undefined", 0)>>)>>) }

(* structures: "S", with the nested structure "N" *)
NestedStruct(isReachable) ==
    StructDecl(9, "N", isReachable, TRUE, FALSE, FALSE, <<FloatMember(9, "x", isReachable)>>, <<>>)

StructDeclStmnts ==
    { [type |-> "StructDeclStmnt", row |-> 8, structDecl |-> s] :
        s \in { StructDecl(8, "S", r, FALSE, FALSE, FALSE, <<FloatMember(10, "y", r)>>, <<>>) :
                    r \in BOOLEAN }
              \cup { StructDecl(8, "S", r, FALSE, FALSE, FALSE,
                                <<VarDeclStmnt(9, r, FALSE, FALSE, StructVarType(9, NestedStruct(r)),
                                               <<VarDecl(9, "n", FALSE, NoSemantic)>>),
                                  FloatMember(10, "y", r)>>,
                                <<NestedStruct(r)>>) : r \in BOOLEAN }
              \* S holds a member of the nested structure N, which holds a
              \* member of the nested structure I
              \cup { LET I == StructDecl(9, "I", TRUE, TRUE, FALSE, FALSE,
                                         <<FloatMember(9, "x", TRUE)>>, <<>>)
                         N == StructDecl(9, "N", TRUE, TRUE, FALSE, FALSE,
                                         <<VarDeclStmnt(9, TRUE, FALSE, FALSE, StructVarType(9, I),
                                                        <<VarDecl(9, "i", FALSE, NoSemantic)>>)>>,
                                         <<>>)
                     IN  StructDecl(8, "S", TRUE, FALSE, FALSE, FALSE,
                                    <<VarDeclStmnt(9, TRUE, FALSE, FALSE, StructVarType(9, N),
                                                   <<VarDecl(9, "n", FALSE, NoSemantic)>>),
                                      FloatMember(10, "y", TRUE)>>,
                                    <<N, I>>) }
              \cup { StructDecl(8, "S", TRUE, FALSE, i, ~i,
                                <<VarDeclStmnt(10, TRUE, FALSE, FALSE, VarType(10, BaseType("Float4")),
                                               <<VarDecl(10, "pos", FALSE, SystemValue("SV_Position")),
                                                 VarDecl(10, "col", FALSE, UserSemantic("COLOR", 0))>>)>>,
                                <<>>) : i \in BOOLEAN } }

(* global variables: "v", "w" *)
GlobalVarDeclStmnts ==
    { VarDeclStmnt(11, r, FALSE, FALSE, VarType(11, BaseType("Float4")),
                   <<VarDecl(11, "v", d1, NoSemantic), VarDecl(11, "w", d2, NoSemantic)>>) :
        r \in BOOLEAN, d1 \in BOOLEAN, d2 \in BOOLEAN }
    \cup { VarDeclStmnt(11, TRUE, TRUE, FALSE, VarType(11, BaseType("Float4")),
                        <<VarDecl(11, "v", FALSE, NoSemantic)>>) }
    \cup { [VarDeclStmnt(11, TRUE, FALSE, FALSE, VarType(11, BaseType(m[1])),
                         <<VarDecl(11, "v", FALSE, NoSemantic)>>)
              EXCEPT !.storageClasses = <<m[2]>>, !.typeModifiers = <<"const">>] :
             m \in {<<"Double", "Shared">>, <<"String", "Static">>} }

(* type aliases: of the structure "T" *)
AliasDeclStmnt(isReachable, structDecl) ==
    [type |-> "AliasDeclStmnt", row |-> 12, isReachable |-> isReachable, structDecl |-> structDecl]

AliasDeclStmnts ==
    { AliasDeclStmnt(r, <<>>) : r \in BOOLEAN }
    \cup { AliasDeclStmnt(r, <<StructDecl(12, id, r, FALSE, FALSE, FALSE,
                                          <<FloatMember(13, "z", r)>>, <<>>)>>) :
              r \in BOOLEAN, id \in {"T", ""} }

(* entry points: "main" after the conversion: void, without parameters *)
EntryPoint(attribs, semantic, inputSemantics, outputSemantics, stmnts) ==
    [type |-> "FunctionDecl", ident |-> "main", row |-> 20, isReachable |-> TRUE,
     hasNonReturnControlPath |-> FALSE, isEntryPoint |-> TRUE,
     returnType |-> VarType(20, [kind |-> "Void"]), parameters |-> <<>>,
     codeBlock |-> <<[stmnts |-> stmnts]>>, attribs |-> attribs, semantic |-> semantic,
     inputSemantics |-> inputSemantics, outputSemantics |-> outputSemantics]

Attribute(ident, arguments) == [ident |-> ident, row |-> 19, arguments |-> arguments]

EntryPoints ==
    { \* a vertex or fragment shader with user-defined and system-value semantics
      EntryPoint(<<>>, SystemValue("SV_Position"),
                 [varDeclRefs   |-> <<VarDeclRef(20, "p", UserSemantic("POSITION", 0), "Float4")>>,
                  varDeclRefsSV |-> <<VarDeclRef(20, "id", SystemValue("SV_VertexID"), "Int")>>],
                 [varDeclRefs   |-> <<VarDeclRef(20, "c", UserSemantic("COLOR", 1), "Float4"),
                                      VarDeclRef(20, "d", NoSemantic, "Float4")>>,
                  varDeclRefsSV |-> <<VarDeclRef(20, "o", SystemValue("SV_Position"), "Float4")>>],
                 <<[type |-> "ExprStmnt", row |-> 21, expr |-> Assign(21, "o", VarAccess(21, "p"))],
                   [type |-> "ReturnStmnt", row |-> 22, expr |-> <<VarAccess(22, "o")>>,
                    isEndOfFunction |-> TRUE]>>),
      \* a compute shader
      EntryPoint(<<Attribute("numthreads", <<Literal(19, "8"), Literal(19, "8"), Literal(19, "1")>>)>>,
                 NoSemantic,
                 [varDeclRefs |-> <<>>, varDeclRefsSV |-> <<>>],
                 [varDeclRefs |-> <<>>, varDeclRefsSV |-> <<>>],
                 <<[type |-> "NullStmnt", row |-> 21]>>),
      \* attributes the emitter knows, does not know, and cannot write
      EntryPoint(<<Attribute("earlydepthstencil", <<>>), Attribute("unroll", <<>>),
                   Attribute("numthreads", <<Literal(19, "8")>>)>>,
                 SystemValue("SV_Depth"),
                 [varDeclRefs   |-> <<VarDeclRef(20, "uv", UserSemantic("TEXCOORD", 0), "Float4")>>,
                  varDeclRefsSV |-> <<>>],
                 [varDeclRefs   |-> <<VarDeclRef(20, "c", UserSemantic("COLOR", 0), "Float4")>>,
                  varDeclRefsSV |-> <<>>],
                 <<[type |-> "ReturnStmnt", row |-> 21, expr |-> <<Literal(21, "0.5")>>,
                    isEndOfFunction |-> FALSE],
                   [type |-> "CtrlTransferStmnt", row |-> 22, transfer |-> "discard"]>>) }

(* expressions *)
Binary(lhsExpr, op, rhsExpr) == [type |-> "BinaryExpr", row |-> 21, lhsExpr |-> lhsExpr, op |-> op, rhsExpr |-> rhsExpr]

\* type: UnaryExpr or PostUnaryExpr
Unary(type, op, expr) == [type |-> type, row |-> 21, op |-> op, expr |-> expr]

FunctionCallExpr(intrinsic, ident, arguments) == [type |-> "FunctionCallExpr", row |-> 21, call |-> [intrinsic |-> intrinsic, ident |-> ident, row |-> 21, arguments |-> arguments]]

\* typeDenoter: ast->expr->GetTypeDenoter()->Get(); varIdent: the chain of
\* identifiers, each with the type of its symbol (GetExplicitTypeDenoter)
Suffix(expr, typeDenoter, varIdent) == [type |-> "SuffixExpr", row |-> 21, expr |-> expr, typeDenoter |-> typeDenoter, varIdent |-> varIdent]

VarIdent(ident, dataType) == [ident |-> ident, typeDenoter |-> BaseType(dataType)]

\* the expressions a call of mul takes as an argument, one of each kind
Operands ==
    { VarAccess(21, "M"), Literal(21, "2.0"),
      Binary(VarAccess(21, "p"), "+", VarAccess(21, "v")),
      Unary("UnaryExpr", "-", VarAccess(21, "p")),
      Unary("PostUnaryExpr", "++", VarAccess(21, "i")),
      [type |-> "TernaryExpr", row |-> 21, condExpr |-> VarAccess(21, "c"),
       thenExpr |-> VarAccess(21, "p"), elseExpr |-> VarAccess(21, "v")],
      [type |-> "BracketExpr", row |-> 21,
       expr |-> Binary(VarAccess(21, "p"), "-", VarAccess(21, "v"))],
      FunctionCallExpr("Dot", "dot", <<VarAccess(21, "p"), VarAccess(21, "v")>>) }

\* calls of mul: with two arguments, and with one, three and no argument
MulCalls ==
    { FunctionCallExpr("Mul", "mul", <<a, b>>) : a \in Operands, b \in Operands }
    \cup { FunctionCallExpr("Mul", "mul", args) :
             args \in { <<>>, <<VarAccess(21, "M")>>,
                        <<VarAccess(21, "M"), VarAccess(21, "p"), VarAccess(21, "v")>> } }

\* suffix expressions: 1.0.xxxx, 1.0.xx.y.xxx, v.xyz.x, v.x.xx, f().m.xy, f().m
SuffixExprs ==
    { Suffix(Literal(21, "1.0"), BaseType("Float"), <<VarIdent("xxxx", "Float4")>>),
      Suffix(Literal(21, "1.0"), BaseType("Float"),
             <<VarIdent("xx", "Float2"), VarIdent("y", "Float"), VarIdent("xxx", "Float3")>>),
      Suffix(VarAccess(21, "v"), BaseType("Float4"),
             <<VarIdent("xyz", "Float3"), VarIdent("x", "Float")>>),
      Suffix(VarAccess(21, "v"), BaseType("Float4"),
             <<VarIdent("x", "Float"), VarIdent("xx", "Float2")>>),
      Suffix(FunctionCallExpr("Undefined", "f", <<>>), [kind |-> "Struct", ident |-> "S"],
             <<VarIdent("m", "Float"), VarIdent("xy", "Float2")>>),
      Suffix(FunctionCallExpr("Undefined", "f", <<>>), [kind |-> "Struct", ident |-> "S"],
             <<VarIdent("m", "Float4")>>) }

(* statements *)
ExprStmnt(row, expr) == [type |-> "ExprStmnt", row |-> row, expr |-> expr]

ReturnStmnt(row, value, isEndOfFunction) == [type |-> "ReturnStmnt", row |-> row, expr |-> <<Literal(row, value)>>, isEndOfFunction |-> isEndOfFunction]

IfStmnt(row, condition, bodyStmnt, elseStmnt) == [type |-> "IfStmnt", row |-> row, condition |-> VarAccess(row, condition), bodyStmnt |-> bodyStmnt, elseStmnt |-> elseStmnt]

\* the bodies of the entry point, one for each form of statement
StatementBodies ==
    { <<>>,
      <<ReturnStmnt(21, "0.5", TRUE)>>,
      \* if (c) return 0.5; else if (d) return 1.0; else return 0.0;
      <<IfStmnt(21, "c", ReturnStmnt(22, "0.5", FALSE),
                <<[type |-> "ElseStmnt", row |-> 23,
                   bodyStmnt |-> IfStmnt(23, "d", ReturnStmnt(24, "1.0", FALSE),
                                         <<[type |-> "ElseStmnt", row |-> 25,
                                            bodyStmnt |-> ReturnStmnt(26, "0.0", FALSE)]>>)]>>)>>,
      \* if (c) { o = p; } return 0.5;
      <<IfStmnt(21, "c", [type |-> "CodeBlockStmnt", row |-> 21,
                          stmnts |-> <<ExprStmnt(22, Assign(22, "o", VarAccess(22, "p")))>>], <<>>),
        ReturnStmnt(23, "0.5", TRUE)>>,
      \* for (int i = 0; i < 4; i++) o = p;
      <<[type |-> "ForLoopStmnt", row |-> 21,
         initSmnt |-> <<VarDeclStmnt(21, TRUE, FALSE, FALSE, VarType(21, BaseType("Int")),
                                     <<[VarDecl(21, "i", FALSE, NoSemantic)
                                          EXCEPT !.initializer = <<Literal(21, "0")>>]>>)>>,
         condition |-> <<Binary(VarAccess(21, "i"), "<", Literal(21, "4"))>>,
         iteration |-> <<Unary("PostUnaryExpr", "++", VarAccess(21, "i"))>>,
         bodyStmnt |-> ExprStmnt(22, Assign(22, "o", VarAccess(22, "p")))]>>,
      \* while (c) { discard; }
      <<[type |-> "WhileLoopStmnt", row |-> 21, condition |-> VarAccess(21, "c"),
         bodyStmnt |-> [type |-> "CodeBlockStmnt", row |-> 21,
                        stmnts |-> <<[type |-> "CtrlTransferStmnt", row |-> 22, transfer |-> "discard"]>>]]>>,
      \* do o = p; while (c);
      <<[type |-> "DoWhileLoopStmnt", row |-> 21, condition |-> VarAccess(21, "c"),
         bodyStmnt |-> ExprStmnt(22, Assign(22, "o", VarAccess(22, "p")))]>>,
      \* switch (i) { case 0: o = p; break; default: break; }
      <<[type |-> "SwitchStmnt", row |-> 21, selector |-> VarAccess(21, "i"),
         cases |-> <<[type |-> "SwitchCase", row |-> 22, expr |-> <<Literal(22, "0")>>,
                      stmnts |-> <<ExprStmnt(22, Assign(22, "o", VarAccess(22, "p"))),
                                   [type |-> "CtrlTransferStmnt", row |-> 22, transfer |-> "break"]>>],
                     [type |-> "SwitchCase", row |-> 23, expr |-> <<>>,
                      stmnts |-> <<[type |-> "CtrlTransferStmnt", row |-> 23, transfer |-> "break"]>>]>>]>>,
      \* struct L { float4 y; } s;
      <<VarDeclStmnt(21, TRUE, FALSE, FALSE,
                     StructVarType(21, StructDecl(21, "L", TRUE, FALSE, FALSE, FALSE,
                                                  <<FloatMember(22, "y", TRUE)>>, <<>>)),
                     <<VarDecl(21, "s", FALSE, NoSemantic)>>)>>,
      \* float4 v, w; with the code generation of both disabled
      <<VarDeclStmnt(21, TRUE, FALSE, FALSE, VarType(21, BaseType("Float4")),
                     <<VarDecl(21, "v", TRUE, NoSemantic), VarDecl(21, "w", TRUE, NoSemantic)>>),
        [type |-> "NullStmnt", row |-> 22]>> }

\* entry points that differ in their body, and in their return semantic and
\* output variables
StatementEntryPoints ==
    { EntryPoint(<<>>, v.semantic,
                 [varDeclRefs |-> <<VarDeclRef(20, "p", UserSemantic("POSITION", 0), "Float4")>>,
                  varDeclRefsSV |-> <<>>],
                 [varDeclRefs |-> v.varDeclRefs, varDeclRefsSV |-> v.varDeclRefsSV],
                 body) :
        v \in { [semantic |-> NoSemantic, varDeclRefs |-> <<>>,
                 varDeclRefsSV |-> <<VarDeclRef(20, "o", SystemValue("SV_Position"), "Float4")>>],
                [semantic |-> SystemValue("SV_Depth"), varDeclRefs |-> <<>>, varDeclRefsSV |-> <<>>],
                [semantic |-> NoSemantic, varDeclRefsSV |-> <<>>,
                 varDeclRefs |-> <<VarDeclRef(20, "c", UserSemantic("COLOR", 0), "Float4")>>],
                [semantic |-> NoSemantic, varDeclRefs |-> <<>>, varDeclRefsSV |-> <<>>] },
        body \in StatementBodies }
    \cup { EntryPoint(<<>>, NoSemantic, [varDeclRefs |-> <<>>, varDeclRefsSV |-> <<>>],
                      [varDeclRefs |-> <<>>, varDeclRefsSV |-> <<>>],
                      <<ExprStmnt(21, e)>>) : e \in MulCalls \cup SuffixExprs }

DefaultEntryPoint ==
    CHOOSE e \in EntryPoints : e.attribs = <<>>

\* the kinds of global statement, in the order a program declares them
Families == <<FunctionDecls, BufferDeclStmnts, TextureDeclStmnts, StructDeclStmnts,
              GlobalVarDeclStmnts, AliasDeclStmnts>>

\* the sequences of at most n global statements, of kinds k and later
RECURSIVE GlobalStmntLists(_, _)
GlobalStmntLists(k, n) ==
    IF n = 0 \/ k > Len(Families) THEN {<<>>}
    ELSE GlobalStmntLists(k + 1, n)
         \cup { <<d>> \o rest : d \in Families[k], rest \in GlobalStmntLists(k + 1, n - 1) }


-----------------------------------------------------------------------------
(* The state of one generation request *)

VARIABLES
    program,     \* the syntax tree (Program&)
    inputDesc,   \* ShaderInput: shaderTarget, entryPoint
    outputDesc,  \* ShaderOutput: shaderVersion, options, formatting, statistics
    env,         \* what the callees outside the emitter do on this request
    gen,         \* the member variables of the emitter
    sink,        \* the lines written to the output stream
    cur,         \* the text of the line that is not ended yet
    lineOpen,    \* BeginLn was called and EndLn not yet
    lnFaults,    \* the number of BeginLn calls on an open line and of EndLn
                 \* calls on no line, so far
    options,     \* the options stack of the Generator (PushOptions, PopOptions)
    indent,      \* the indentation level
    log,         \* the reports submitted to the log
    textures,    \* stats_->textures
    passes,      \* the passes called so far, in order, each with the number of
                 \* lines the sink held when it was called
    raised,      \* the exceptions raised so far, in order
    exc,         \* the exception in flight inside the try block
    escaped,     \* the exception that left GenerateCodePrimary
    pc,          \* the position in GenerateCodePrimary
    gi,          \* the index of the next global statement to visit
    now,         \* the reading of the clock
    run,         \* the number of the current request
    prevSink,    \* the text the previous request wrote
    prevNow      \* the reading of the clock at the previous request

vars == <<program, inputDesc, outputDesc, env, gen, sink, cur, lineOpen, lnFaults, options, indent, log,
          textures, passes, raised, exc, escaped, pc, gi, now, run, prevSink, prevNow>>

inputs == <<program, inputDesc, outputDesc, env>>

OutputShaderVersions == {330}

Program(globalStmnts, entryPointRef, hasSM3ScreenSpace, usedIntrinsics, requiredExtensions) ==
    [globalStmnts |-> globalStmnts, entryPointRef |-> entryPointRef,
     hasSM3ScreenSpace |-> hasSM3ScreenSpace, usedIntrinsics |-> usedIntrinsics,
     requiredExtensions |-> requiredExtensions]

ShaderInput(shaderTarget, entryPoint) ==
    [shaderTarget |-> shaderTarget, entryPoint |-> entryPoint]

ShaderOutput(shaderVersion, allowExtensions, lineMarks, statistics) ==
    [shaderVersion |-> shaderVersion, options |-> [allowExtensions |-> allowExtensions],
     formatting |-> [prefix |-> "xsc_", lineMarks |-> lineMarks], statistics |-> statistics]

\* errorsAbort: Error raises its report instead of submitting it to the log
\* argsBool: the bool read through reinterpret_cast<bool*>(&args) of a non-null args
\* failPass, failKind, failRow: the pass that raises an exception, and which
Environment(errorsAbort, argsBool, failPass, failKind) ==
    [errorsAbort |-> errorsAbort, argsBool |-> argsBool,
     failPass |-> failPass, failKind |-> failKind, failRow |-> 20]

HasStmnt(globals, types) == \E i \in 1..Len(globals) : globals[i].type \in types

\* programs that differ in their global statements; the statistics and the
\* bool read through args vary on the programs whose emission reads them
DeclarationRequests ==
    \E globals \in GlobalStmntLists(1, MaxGlobals) :
        /\ program = Program(globals \o <<DefaultEntryPoint>>, <<DefaultEntryPoint>>, FALSE, {}, <<>>)
        /\ \E t \in Targets : inputDesc = ShaderInput(t, "main")
        /\ \E v \in OutputShaderVersions, lm \in BOOLEAN,
              st \in IF HasStmnt(globals, {"TextureDeclStmnt"}) THEN BOOLEAN ELSE {FALSE} :
              outputDesc = ShaderOutput(v, TRUE, lm, st)
        /\ \E ea \in BOOLEAN,
              ab \in IF HasStmnt(globals, {"StructDeclStmnt", "AliasDeclStmnt"})
                     THEN BOOLEAN ELSE {TRUE} :
              env = Environment(ea, ab, "None", "Report")

\* programs that differ in what the prologue depends on
PrologueRequests ==
    /\ \E e \in EntryPoints, sm3 \in BOOLEAN, ui \in {{}, {"Clip"}},
          exts \in {<<>>, <<"GL_ARB_shading_language_420pack", "GL_EXT_gpu_shader4">>} :
          program = Program(<<e>>, <<e>>, sm3, ui, exts)
    /\ \E t \in Targets, ep \in {"", "main"} : inputDesc = ShaderInput(t, ep)
    /\ \E v \in OutputShaderVersions, ae \in BOOLEAN :
          /\ outputDesc = ShaderOutput(v, ae, FALSE, FALSE)
          /\ \E ea \in BOOLEAN,
                k \in IF program.requiredExtensions # <<>> /\ ~ae
                      THEN ExceptionKinds ELSE {"Report"} :
                env = Environment(ea, TRUE, "None", k)

\* requests on which a pass fails, or that have no entry point
FailureRequests ==
    /\ \E ep \in {<<>>, <<DefaultEntryPoint>>},
          globals \in {<<>>, <<FunctionDecl(TRUE, FALSE, FunctionBody)>>} :
          program = Program(globals \o ep, ep, FALSE, {}, <<>>)
    /\ \E t \in Targets, ep \in {"", "main"} : inputDesc = ShaderInput(t, ep)
    /\ \E v \in OutputShaderVersions : outputDesc = ShaderOutput(v, TRUE, FALSE, TRUE)
    /\ \E ea \in BOOLEAN, p \in {"A", "B", "C", "D"}, k \in ExceptionKinds :
          env = Environment(ea, TRUE, p, k)

\* programs that differ in the statements and expressions of the entry point
StatementRequests ==
    /\ \E e \in StatementEntryPoints : program = Program(<<e>>, <<e>>, FALSE, {}, <<>>)
    /\ \E t \in Targets : inputDesc = ShaderInput(t, "main")
    /\ \E v \in OutputShaderVersions : outputDesc = ShaderOutput(v, TRUE, FALSE, FALSE)
    /\ \E ea \in BOOLEAN, ab \in BOOLEAN : env = Environment(ea, ab, "None", "Report")

InitEmitter ==
    /\ gen = [shaderTarget_ |-> "Undefined", versionOut_ |-> 0, allowExtensions_ |-> FALSE,
              allowLineMarks_ |-> FALSE, nameManglingPrefix_ |-> "", stats_ |-> FALSE,
              isInsideEntryPoint_ |-> FALSE, isInsideInterfaceBlock_ |-> FALSE]
    /\ sink = <<>> /\ cur = <<>> /\ lineOpen = FALSE /\ indent = 0
    /\ lnFaults = 0 /\ options = <<>>
    /\ log = <<>> /\ textures = <<>> /\ passes = <<>> /\ raised = <<>>
    /\ exc = NoExc /\ escaped = NoExc
    /\ pc = "GenerateCodePrimary" /\ gi = 1
    /\ now = 0 /\ run = 1 /\ prevSink = <<>> /\ prevNow = 0

Init ==
    /\ DeclarationRequests \/ PrologueRequests \/ FailureRequests \/ StatementRequests
    /\ InitEmitter

\* the requests that are generated twice
InitRuns ==
    /\ \/ DeclarationRequests /\ outputDesc.formatting.lineMarks
       \/ PrologueRequests
       \/ FailureRequests
    /\ InitEmitter


-----------------------------------------------------------------------------
(* GenerateCodePrimary *)

\* what the visitors read: the member variables, GetProgram()->entryPointRef,
\* and the outcomes of undefined behaviour
G(ub) ==
    [shaderTarget_ |-> gen.shaderTarget_, versionOut_ |-> gen.versionOut_,
     allowExtensions_ |-> gen.allowExtensions_, allowLineMarks_ |-> gen.allowLineMarks_,
     stats_ |-> gen.stats_, isInsideEntryPoint_ |-> gen.isInsideEntryPoint_,
     isInsideInterfaceBlock_ |-> gen.isInsideInterfaceBlock_,
     entryPointRef |-> program.entryPointRef[1], argsBool |-> env.argsBool, ub |-> ub]

State ==
    [sink |-> sink, cur |-> cur, lineOpen |-> lineOpen, lnFaults |-> lnFaults,
     options |-> options, indent |-> indent, log |-> log,
     textures |-> textures, passes |-> passes, raised |-> raised, exc |-> exc, gen |-> gen]

\* The calls ops are made inside the try block; control then goes to nextPc,
\* or to the handlers when a call raised.
Emit(ops, nextPc) ==
    \E st \in {Apply(State, ops, env.errorsAbort)} :
        /\ sink' = st.sink /\ cur' = st.cur /\ lineOpen' = st.lineOpen
        /\ lnFaults' = st.lnFaults /\ options' = st.options
        /\ indent' = st.indent /\ log' = st.log /\ textures' = st.textures
        /\ passes' = st.passes /\ raised' = st.raised /\ exc' = st.exc /\ gen' = st.gen
        /\ pc' = IF st.exc.kind = "Crash" THEN "crashed"
                 ELSE IF st.exc # NoExc THEN "catch"
                 ELSE nextPc
        /\ UNCHANGED <<inputs, escaped, now, run, prevSink, prevNow>>

\* the passes are run without looking at the entry-point reference
GenerateCodePrimary_NoEntryPointCheck ==
    /\ pc = "GenerateCodePrimary"
    /\ gen' = [gen EXCEPT
                  !.shaderTarget_ = inputDesc.shaderTarget,
                  !.versionOut_ = outputDesc.shaderVersion,
                  !.allowExtensions_ = outputDesc.options.allowExtensions,
                  !.allowLineMarks_ = outputDesc.formatting.lineMarks,
                  !.nameManglingPrefix_ = outputDesc.formatting.prefix,
                  !.stats_ = outputDesc.statistics]
    /\ pc' = "MarkControlPaths"
    /\ UNCHANGED <<inputs, sink, cur, lineOpen, lnFaults, options, indent, log, textures, passes, raised, exc,
                   escaped, gi, now, run, prevSink, prevNow>>

\* lines 38-45 and 94-95: store the parameters; without an entry point, report it
GenerateCodePrimary ==
    /\ pc = "GenerateCodePrimary"
    /\ LET stored == [gen EXCEPT
                        !.shaderTarget_ = inputDesc.shaderTarget,
                        !.versionOut_ = outputDesc.shaderVersion,
                        !.allowExtensions_ = outputDesc.options.allowExtensions,
                        !.allowLineMarks_ = outputDesc.formatting.lineMarks,
                        !.nameManglingPrefix_ = outputDesc.formatting.prefix,
                        !.stats_ = outputDesc.statistics]
       IN  \E st \in {Apply([State EXCEPT !.gen = stored],
                              IF program.entryPointRef # <<>> THEN <<>>
                              ELSE Error("entry point not found", NoPos),
                              env.errorsAbort)} :
           /\ gen' = st.gen /\ log' = st.log /\ raised' = st.raised
           /\ escaped' = st.exc
           /\ pc' = IF program.entryPointRef # <<>> THEN "MarkControlPaths" ELSE "done"
    /\ UNCHANGED <<inputs, sink, cur, lineOpen, lnFaults, options, indent, textures, passes, exc, gi, now, run,
                   prevSink, prevNow>>

\* lines 50-53
MarkControlPaths ==
    /\ pc = "MarkControlPaths"
    /\ Emit(CallPass(env, "A"), "Convert")
    /\ UNCHANGED gi

\* lines 56-59
Convert ==
    /\ pc = "Convert"
    /\ Emit(CallPass(env, "B"), "MarkReferencesFromEntryPoint")
    /\ UNCHANGED gi

\* lines 62-65
MarkReferencesFromEntryPoint ==
    /\ pc = "MarkReferencesFromEntryPoint"
    /\ Emit(CallPass(env, "C"), "WriteHeader")
    /\ UNCHANGED gi

\* lines 68-76
WriteHeaderComments ==
    /\ pc = "WriteHeader"
    /\ Emit(WriteHeader(G("crash"), inputDesc, now), "VisitProgram")
    /\ UNCHANGED gi

\* lines 79, 254-287
VisitProgramPrologue ==
    /\ pc = "VisitProgram"
    /\ Emit(VisitProgram(G("crash"), env, program), "Visit")
    /\ gi' = 1

\* line 289: the next global statement, by its kind
NextGlobal(type) ==
    /\ pc = "Visit"
    /\ gi <= Len(program.globalStmnts)
    /\ program.globalStmnts[gi].type = type
    /\ gi' = gi + 1

VisitGlobalFunctionDecl ==
    /\ NextGlobal("FunctionDecl")
    /\ \E ub \in {"crash", "garbage"} :
          Emit(VisitFunctionDecl(G(ub), program.globalStmnts[gi]), "Visit")

VisitGlobalBufferDeclStmnt ==
    /\ NextGlobal("BufferDeclStmnt")
    /\ Emit(VisitBufferDeclStmnt(G("crash"), program.globalStmnts[gi]), "Visit")

VisitGlobalTextureDeclStmnt ==
    /\ NextGlobal("TextureDeclStmnt")
    /\ \E ub \in {"crash", "garbage"} :
          Emit(VisitTextureDeclStmnt(G(ub), program.globalStmnts[gi]), "Visit")

VisitGlobalStructDeclStmnt ==
    /\ NextGlobal("StructDeclStmnt")
    /\ Emit(VisitStructDeclStmnt(G("crash"), program.globalStmnts[gi]), "Visit")

VisitGlobalVarDeclStmnt ==
    /\ NextGlobal("VarDeclStmnt")
    /\ Emit(VisitVarDeclStmnt(G("crash"), program.globalStmnts[gi]), "Visit")

VisitGlobalAliasDeclStmnt ==
    /\ NextGlobal("AliasDeclStmnt")
    /\ Emit(VisitAliasDeclStmnt(G("crash"), program.globalStmnts[gi]), "Visit")

\* the end of the try block: GenerateCodePrimary returns
Return ==
    /\ pc = "Visit"
    /\ gi > Len(program.globalStmnts)
    /\ pc' = "done"
    /\ UNCHANGED <<inputs, gen, sink, cur, lineOpen, lnFaults, options, indent, log, textures, passes, raised,
                   exc, escaped, gi, now, run, prevSink, prevNow>>

\* the handler has run: the exception in flight is gone, and GenerateCodePrimary
\* is left, with the exception st.exc if the handler raised one
Handled(st) ==
    /\ log' = st.log /\ raised' = st.raised
    /\ escaped' = st.exc
    /\ exc' = NoExc
    /\ pc' = "done"
    /\ UNCHANGED <<inputs, gen, sink, cur, lineOpen, lnFaults, options, indent, textures, passes, gi, now, run,
                   prevSink, prevNow>>

\* lines 81-84: catch (const Report& e) { throw e; }
CatchReport ==
    /\ pc = "catch"
    /\ exc.kind = "Report"
    /\ Handled([State EXCEPT !.exc = exc])

\* lines 85-88: catch (const ASTRuntimeError& e) { Error(e.what(), e.GetAST()); }
CatchASTRuntimeError ==
    /\ pc = "catch"
    /\ exc.kind = "ASTRuntimeError"
    /\ Handled(Apply([State EXCEPT !.exc = NoExc], Error(exc.msg, exc.row), env.errorsAbort))

\* lines 89-92: catch (const std::exception& e) { Error(e.what()); }
CatchStdExceptionHandler ==
    /\ pc = "catch"
    /\ exc.kind = "std::exception"
    /\ Handled(Apply([State EXCEPT !.exc = NoExc], Error(exc.msg, NoPos), env.errorsAbort))

\* the caller generates again, with the same program and descriptors
GenerateAgain ==
    /\ pc = "done"
    /\ run = 1
    /\ run' = 2
    /\ prevSink' = sink
    /\ prevNow' = now
    /\ \E t \in now..MaxClock : now' = t
    /\ gen' = [gen EXCEPT !.isInsideEntryPoint_ = FALSE, !.isInsideInterfaceBlock_ = FALSE]
    /\ sink' = <<>> /\ cur' = <<>> /\ lineOpen' = FALSE /\ indent' = 0
    /\ lnFaults' = 0 /\ options' = <<>>
    /\ log' = <<>> /\ textures' = <<>> /\ passes' = <<>> /\ raised' = <<>>
    /\ exc' = NoExc /\ escaped' = NoExc
    /\ pc' = "GenerateCodePrimary" /\ gi' = 1
    /\ UNCHANGED inputs

Next ==
    \/ GenerateCodePrimary
    \/ MarkControlPaths
    \/ Convert
    \/ MarkReferencesFromEntryPoint
    \/ WriteHeaderComments
    \/ VisitProgramPrologue
    \/ VisitGlobalFunctionDecl
    \/ VisitGlobalBufferDeclStmnt
    \/ VisitGlobalTextureDeclStmnt
    \/ VisitGlobalStructDeclStmnt
    \/ VisitGlobalVarDeclStmnt
    \/ VisitGlobalAliasDeclStmnt
    \/ Return
    \/ CatchReport
    \/ CatchASTRuntimeError
    \/ CatchStdExceptionHandler

Spec == Init /\ [][Next]_vars

\* two requests in a row
SpecRuns == InitRuns /\ [][Next \/ GenerateAgain]_vars


-----------------------------------------------------------------------------
(* Reading the text the emitter wrote *)

\* the tokens of the lines
Tokens(lines) == UNION { Range(lines[i]) : i \in 1..Len(lines) }

\* the line without its indentation
RECURSIVE Unindented(_)
Unindented(line) ==
    IF line # <<>> /\ line[1] = "    " THEN Unindented(Tail(line)) ELSE line

IsBlankLine(line) == Unindented(line) = <<>>

IsCommentLine(line) == ~IsBlankLine(line) /\ Unindented(line)[1] = "// "

\* the lines that are neither blank nor a comment
CodeLines(lines) ==
    { i \in 1..Len(lines) : ~IsBlankLine(lines[i]) /\ ~IsCommentLine(lines[i]) }

\* the lines that start with the given token
LinesStarting(lines, tok) ==
    { i \in 1..Len(lines) : ~IsBlankLine(lines[i]) /\ Unindented(lines[i])[1] = tok }

\* GenerateCodePrimary returned, and no exception left it
Complete == pc = "done" /\ escaped = NoExc

\* the identifiers declared by a global statement
DeclaredIdents(ast) ==
    CASE ast.type = "FunctionDecl"     -> {ast.ident}
      [] ast.type = "BufferDeclStmnt"  -> {ast.ident}
      [] ast.type = "TextureDeclStmnt" -> { ast.textureDecls[i].ident : i \in 1..Len(ast.textureDecls) }
      [] ast.type = "StructDeclStmnt"  -> {ast.structDecl.ident}
      [] ast.type = "VarDeclStmnt"     -> { ast.varDecls[i].ident : i \in 1..Len(ast.varDecls) }
      [] ast.type = "AliasDeclStmnt"   ->
            { ast.structDecl[i].ident : i \in 1..Len(ast.structDecl) } \ {""}

\* the identifiers of the global declarations without the reachable flag
UnreachableIdents ==
    UNION { LET ast == program.globalStmnts[i] IN
            CASE ast.type = "TextureDeclStmnt" ->
                    { ast.textureDecls[j].ident : j \in
                        { k \in 1..Len(ast.textureDecls) :
                            ~ast.isReachable \/ ~ast.textureDecls[k].isReachable } }
              [] ast.type = "StructDeclStmnt" ->
                    IF ast.structDecl.isReachable THEN {} ELSE DeclaredIdents(ast)
              [] OTHER ->
                    IF ast.isReachable THEN {} ELSE DeclaredIdents(ast)
          : i \in 1..Len(program.globalStmnts) }

-----------------------------------------------------------------------------
(* Reachability *)

\* C1: a complete generation emits no text that contains the identifier of a
\* declaration without the reachable flag (function, uniform buffer, texture,
\* structure, global variable statement, alias of a named structure).
C1_UnreachableNotEmitted ==
    Complete => Tokens(sink) \cap UnreachableIdents = {}

-----------------------------------------------------------------------------
(* The prologue *)

\* C3: in every generation that writes a line that is neither blank nor a
\* comment, the first such line is the #version line, also when the extension
\* agent failed inside WriteVersionAndExtensions and emission went on.
C3_VersionFirst ==
    \A i \in CodeLines(sink) :
        \E j \in LinesStarting(sink, "#version ") :
            /\ j <= i
            /\ \A k \in CodeLines(sink) : j <= k

\* the names of the passes called so far, in order
PassNames == [i \in 1..Len(passes) |-> passes[i].name]

PassesInOrder == \E n \in 0..4 : PassNames = SubSeq(<<"A", "B", "C", "D">>, 1, n)

C6_NoEntryPoint ==
    program.entryPointRef = <<>> =>
        /\ pc \in {"GenerateCodePrimary", "done"}
        /\ passes = <<>>
        /\ sink = <<>> /\ cur = <<>>
        /\ pc = "done" =>
              /\ escaped = [kind |-> "Report", msg |-> "entry point not found", row |-> NoPos]
              /\ raised = <<escaped>>
              /\ log = <<>>

C6_Witness ==
    /\ program.entryPointRef = <<>>
    /\ pc = "done"
    /\ escaped.kind = "Report"


-----------------------------------------------------------------------------
(* Exceptions *)

\* the error reports with the given message: in the log, or leaving as a Report
LoggedErrors(msg) == { i \in 1..Len(log) : log[i].type = "Error" /\ log[i].msg = msg }

\* the error is reported once, with the given position: submitted to the log
\* with no exception leaving, or leaving as the report the reporting raised
ReportedOnce(msg, row) ==
    \/ /\ escaped = NoExc
       /\ Cardinality(LoggedErrors(msg)) = 1
       /\ \A i \in LoggedErrors(msg) : log[i].row = row
    \/ /\ escaped = [kind |-> "Report", msg |-> msg, row |-> row]
       /\ LoggedErrors(msg) = {}

\* C7: the first exception raised during the passes or the emission is handled
\* by its kind: a Report leaves GenerateCodePrimary unchanged and is not
\* converted to an error; an ASTRuntimeError is reported once at the row of its
\* node; any other exception is reported once without position.
C7_HandledByKind ==
    (pc = "done" /\ raised # <<>>) =>
        LET e == raised[1]
        IN  CASE e.kind = "Report"          -> escaped = e /\ LoggedErrors(e.msg) = {}
              [] e.kind = "ASTRuntimeError" -> ReportedOnce(e.msg, e.row)
              [] e.kind = "std::exception"  -> ReportedOnce(e.msg, NoPos)

-----------------------------------------------------------------------------
(* Line marks *)

\* the tokens by which the text of a global statement is recognised: the
\* identifiers it declares; the entry point is written as "void main()"
DeclarationTokens(ast) ==
    IF ast.type = "FunctionDecl" /\ ast.isEntryPoint THEN {"void main()"}
    ELSE DeclaredIdents(ast)

\* the lines of the text that hold the declaration
EmittedAt(ast) ==
    { k \in CodeLines(sink) : DeclarationTokens(ast) \cap Range(sink[k]) # {} }

\* C8: with lineMarks, "#line N" is written before each emitted top-level
\* declaration, N being the row of its node; without lineMarks no "#line" line
\* is written.
C8_LineMarks ==
    Complete =>
        IF outputDesc.formatting.lineMarks
        THEN \A i \in 1..Len(program.globalStmnts) :
                LET ast == program.globalStmnts[i] IN
                EmittedAt(ast) # {} =>
                    \E j \in 1..Len(sink) :
                        /\ sink[j] = <<"#line ">> \o to_string(ast.row)
                        /\ \A k \in EmittedAt(ast) : j < k
        ELSE LinesStarting(sink, "#line ") = {}

-----------------------------------------------------------------------------
(* Bindings *)

\* the elements of a set of numbers in ascending order
RECURSIVE Ascending(_)
Ascending(S) ==
    IF S = {} THEN <<>>
    ELSE LET m == CHOOSE x \in S : \A y \in S : x <= y
         IN  <<m>> \o Ascending(S \ {m})

\* the digits that start at token i of the line
RECURSIVE NumberAt(_, _)
NumberAt(line, i) ==
    IF i <= Len(line) /\ line[i] \in Range(Digits)
    THEN <<line[i]>> \o NumberAt(line, i + 1)
    ELSE <<>>

\* the numbers of the binding qualifiers of the line
BindingsOf(line) ==
    [k \in 1..Len(Ascending({ i \in 1..Len(line) :
                                line[i] \in {"layout(binding = ", ", binding = "} })) |->
        NumberAt(line, Ascending({ i \in 1..Len(line) :
                                     line[i] \in {"layout(binding = ", ", binding = "} })[k] + 1)]

\* the lines that declare a texture, in the order they were written
TextureLines == Ascending({ i \in 1..Len(sink) : "uniform " \in Range(sink[i]) })

\* C10: with a statistics output, one (identifier, binding) record is appended
\* per emitted texture declaration, in emission order, and the binding of the
\* record is the slot written in the layout(binding = N) qualifier of the texture.
C10_StatisticsBinding ==
    (Complete /\ outputDesc.statistics) =>
        /\ Len(textures) = Len(TextureLines)
        /\ \A k \in 1..Len(TextureLines) :
              LET line == sink[TextureLines[k]] IN
              /\ textures[k].ident \in Range(line)
              /\ BindingsOf(line) # <<>> =>
                    /\ textures[k].binding >= 0
                    /\ to_string(textures[k].binding) = BindingsOf(line)[1]


\* the slots of the registers that apply to the target
SlotsFor(registers, target) ==
    { registers[i].slot :
        i \in { k \in 1..Len(registers) : registers[k].shaderTarget \in {"Undefined", target} } }

\* the line has one binding qualifier with a slot of the registers for the
\* target, or none when no register is for the target
BindingAsRegistered(line, registers) ==
    LET slots == SlotsFor(registers, inputDesc.shaderTarget)
    IN  IF slots = {} THEN BindingsOf(line) = <<>>
        ELSE /\ Len(BindingsOf(line)) = 1
             /\ \E n \in slots : BindingsOf(line)[1] = to_string(n)

\* the lines that declare the uniform buffer / the texture of the identifier
BufferLinesOf(ident) ==
    LinesStarting(sink, "layout(std140") \cap { i \in 1..Len(sink) : ident \in Range(sink[i]) }

TextureLinesOf(ident) ==
    { i \in 1..Len(sink) : "uniform " \in Range(sink[i]) /\ ident \in Range(sink[i]) }

\* the reachable uniform buffers and textures: identifier and registers
ReachableBindables ==
    UNION { LET ast == program.globalStmnts[i] IN
            CASE ast.type = "BufferDeclStmnt" /\ ast.isReachable ->
                    { [kind |-> "buffer", ident |-> ast.ident, slotRegisters |-> ast.slotRegisters] }
              [] ast.type = "TextureDeclStmnt" /\ ast.isReachable ->
                    { [kind |-> "texture", ident |-> ast.textureDecls[j].ident,
                       slotRegisters |-> ast.textureDecls[j].slotRegisters] :
                        j \in { k \in 1..Len(ast.textureDecls) : ast.textureDecls[k].isReachable } }
              [] OTHER -> {}
          : i \in 1..Len(program.globalStmnts) }

LinesOf(d) == IF d.kind = "buffer" THEN BufferLinesOf(d.ident) ELSE TextureLinesOf(d.ident)

\* C9: the declaration of a reachable uniform buffer or texture is written once,
\* with exactly one binding qualifier "binding = N" when it has a register for
\* the shader target, N being the slot of that register, and with no binding
\* qualifier when it has no register for the target.
C9_BindingQualifier ==
    \A d \in ReachableBindables :
        /\ Cardinality(LinesOf(d)) <= 1
        /\ Complete => Cardinality(LinesOf(d)) = 1
        /\ \A i \in LinesOf(d) : BindingAsRegistered(sink[i], d.slotRegisters)

\* a texture with a register of another target before the one of the target,
\* and a uniform buffer or texture without a register for the target
C9_Witness ==
    /\ Complete
    /\ \E d \in ReachableBindables :
          /\ Len(d.slotRegisters) = 2
          /\ d.slotRegisters[1].shaderTarget # inputDesc.shaderTarget
          /\ \E i \in LinesOf(d) : BindingsOf(sink[i]) = <<to_string(MaxSlot)>>
    /\ \E d \in ReachableBindables :
          /\ SlotsFor(d.slotRegisters, inputDesc.shaderTarget) = {}
          /\ \E i \in LinesOf(d) : BindingsOf(sink[i]) = <<>>


-----------------------------------------------------------------------------
(* The order of the prologue *)

\* the part of the prologue a line belongs to, by its first token; 0: none
ProloguePart(line) ==
    LET t == Unindented(line)[1]
    IN  CASE t = "// "                       -> 1
          [] t = "#version "                 -> 2
          [] t = "#extension "               -> 3
          [] t = "layout(origin_upper_left"  -> 4
          [] t \in {"layout(local_size_x = ", "layout(early_fragment_tests) in;"} -> 5
          [] t \in {"void clip(float x) { if (x < 0.0) discard; }", "void clip("} -> 6
          [] t \in {"in ", "out ", "layout(location = "} -> 7
          [] OTHER                           -> 0

\* the part of each line of the text; -1: a blank line
PartOfLines ==
    [i \in 1..Len(sink) |-> IF IsBlankLine(sink[i]) THEN -1 ELSE ProloguePart(sink[i])]

\* the lines of the part
LinesOfPart(parts, n) == { i \in 1..Len(parts) : parts[i] = n }

PartLines(n) == LinesOfPart(PartOfLines, n)

\* the prologue is written and no global statement is visited yet
PrologueWritten == pc = "Visit" /\ gi = 1

\* the extension agent returned
AgentReturned == "D" \in Range(PassNames) /\ raised = <<>>

-----------------------------------------------------------------------------
(* Generating twice *)

\* the second generation of the same request returned
GeneratedTwice == run = 2 /\ pc = "done"

-----------------------------------------------------------------------------
(* Functions that are not the entry point *)

\* the reports about the node at the row: warnings in the log, and errors in
\* the log or raised as a Report
WarningsAt(row) == { k \in 1..Len(log) : log[k].type = "Warning" /\ log[k].row = row }

ErrorsAt(row) ==
    { <<"log", k>> : k \in { j \in 1..Len(log) : log[j].type = "Error" /\ log[j].row = row } }
    \cup { <<"raised", k>> : k \in { j \in 1..Len(raised) : raised[j].row = row } }

\* the global statement i has been visited
Visited(i) == gi > i

\* C11: a function without the reachable flag writes no text and reports no
\* error; with a non-return control path it reports exactly one warning and the
\* generation goes on.  A reachable function with a non-return control path
\* reports an error and no warning.
C11_UnreachableFunction ==
    \A i \in 1..Len(program.globalStmnts) :
        LET f == program.globalStmnts[i] IN
        (f.type = "FunctionDecl" /\ ~f.isEntryPoint) =>
            IF ~f.isReachable
            THEN /\ f.ident \notin Tokens(sink) \cup Range(cur)
                 /\ ErrorsAt(f.row) = {}
                 /\ Visited(i) =>
                       /\ Cardinality(WarningsAt(f.row)) = (IF f.hasNonReturnControlPath THEN 1 ELSE 0)
                       /\ gi = i + 1 => pc = "Visit"
            ELSE /\ WarningsAt(f.row) = {}
                 /\ Visited(i) =>
                       Cardinality(ErrorsAt(f.row)) = (IF f.hasNonReturnControlPath THEN 1 ELSE 0)

\* the generation is complete after the warning about an unreachable function
C11_Witness ==
    /\ Complete
    /\ \E i \in 1..Len(program.globalStmnts) :
          LET f == program.globalStmnts[i] IN
          /\ f.type = "FunctionDecl" /\ ~f.isReachable /\ f.hasNonReturnControlPath
          /\ Cardinality(WarningsAt(f.row)) = 1


-----------------------------------------------------------------------------
(* Register prefixes *)

\* the kind of register a declaration binds to
ExpectedPrefix(d) == IF d.kind = "buffer" THEN "b" ELSE "t"

\* C12: a binding qualifier is written only from a register of the expected
\* kind (b for a uniform buffer, t for a texture); a register of another kind
\* is reported as an invalid register prefix and not written as a binding.
C12_RegisterPrefixChecked ==
    \A d \in ReachableBindables :
        \A i \in LinesOf(d) :
            BindingsOf(sink[i]) # <<>> =>
                \E k \in 1..Len(d.slotRegisters) :
                    /\ d.slotRegisters[k].shaderTarget \in {"Undefined", inputDesc.shaderTarget}
                    /\ d.slotRegisters[k].type = ExpectedPrefix(d)
                    /\ BindingsOf(sink[i])[1] = to_string(d.slotRegisters[k].slot)


-----------------------------------------------------------------------------
(* The exits of the entry point *)

\* the index of the entry point among the global statements
EntryIndex ==
    CHOOSE i \in 1..Len(program.globalStmnts) :
        program.globalStmnts[i].type = "FunctionDecl" /\ program.globalStmnts[i].isEntryPoint

\* the statements of the body of the entry point
EntryStmnts == program.entryPointRef[1].codeBlock[1].stmnts

\* the exits of the entry point: its return statements, and the end of the
\* body when the last statement is not a return
RECURSIVE ReturnsIn(_)
ReturnsIn(stmnts) ==
    IF stmnts = <<>> THEN <<>>
    ELSE LET ast == Head(stmnts)
         IN  (CASE ast.type = "ReturnStmnt" -> <<ast>>
                [] ast.type \in {"CodeBlockStmnt", "SwitchCase"} -> ReturnsIn(ast.stmnts)
                [] ast.type = "SwitchStmnt" -> ReturnsIn(ast.cases)
                [] ast.type = "IfStmnt" -> ReturnsIn(<<ast.bodyStmnt>> \o ast.elseStmnt)
                [] ast.type \in {"ElseStmnt", "ForLoopStmnt", "WhileLoopStmnt", "DoWhileLoopStmnt"} ->
                      ReturnsIn(<<ast.bodyStmnt>>)
                [] OTHER -> <<>>)
             \o ReturnsIn(Tail(stmnts))

EntryReturns == ReturnsIn(EntryStmnts)

EntryExits ==
    Len(EntryReturns)
    + (IF EntryStmnts = <<>> \/ EntryStmnts[Len(EntryStmnts)].type # "ReturnStmnt" THEN 1 ELSE 0)

\* the built-ins an exit assigns: those of the system-value output variables,
\* or the one of the semantic of the entry point
ExitBuiltins ==
    LET entry == program.entryPointRef[1]
        refs  == entry.outputSemantics.varDeclRefsSV
    IN  IF refs # <<>>
        THEN [k \in 1..Len(refs) |-> SemanticToGLSLKeyword(refs[k].semantic)]
        ELSE IF entry.semantic.sv THEN <<SemanticToGLSLKeyword(entry.semantic)>>
        ELSE <<>>

\* the lines that assign to the built-in
AssignmentsTo(builtin) ==
    { i \in 1..Len(sink) :
        LET line == Unindented(sink[i])
        IN  Len(line) >= 2 /\ <<line[1]>> = builtin /\ line[2] = " = " }

\* C13: every exit of the entry point writes the assignments to the output
\* built-ins once: each return statement, followed by "return;" unless it is
\* flagged end-of-function, and the end of the body when its last statement is
\* not a return; no exit reports a missing output semantic instead.
C13_ExitsAssignOutputs ==
    (program.entryPointRef # <<>> /\ Visited(EntryIndex)) =>
        /\ \A k \in 1..Len(log) : log[k].msg # "missing output semantic"
        /\ \A k \in 1..Len(raised) : raised[k].msg # "missing output semantic"
        /\ (pc = "Visit" \/ Complete) =>
              /\ \A b \in 1..Len(ExitBuiltins) :
                    Cardinality(AssignmentsTo(ExitBuiltins[b])) = EntryExits
              /\ Cardinality(LinesStarting(sink, "return;")) =
                    Cardinality({ k \in 1..Len(EntryReturns) : ~EntryReturns[k].isEndOfFunction })

-----------------------------------------------------------------------------
(* The entry point without statements *)

\* the entry point that was visited has a body without statements
EmptyEntryPointVisited ==
    /\ program.entryPointRef # <<>>
    /\ EntryStmnts = <<>>
    /\ Visited(EntryIndex)

\* C14: a reachable entry point whose body has no statements is written as
\* "void main()", an opened scope, the local declarations of its semantics and
\* a closed scope, and no error is reported, on every target and whatever its
\* output semantics.
C14_EmptyEntryPoint ==
    EmptyEntryPointVisited =>
        /\ \A k \in 1..Len(log) : log[k].type # "Error"
        /\ raised = <<>>
        /\ \E i \in LinesStarting(sink, "void main()") :
              /\ i + 1 \in LinesStarting(sink, "{")
              /\ \E j \in LinesStarting(sink, "}") : j > i + 1

-----------------------------------------------------------------------------
(* Intrinsics and suffix expressions *)

\* the expression of the only statement of the entry point, when it is an
\* expression statement
EntryExpr == EntryStmnts[1].expr

EntryIsCall(intrinsic) ==
    /\ program.entryPointRef # <<>>
    /\ Len(EntryStmnts) = 1
    /\ EntryStmnts[1].type = "ExprStmnt"
    /\ EntryExpr.type = "FunctionCallExpr"
    /\ EntryExpr.call.intrinsic = intrinsic

\* the text an expression is written as
Emission(expr) ==
    LET ops == VisitExpr(G("crash"), expr) IN [i \in 1..Len(ops) |-> ops[i].s]

\* the argument of mul, in brackets of its own iff it is a ternary, binary,
\* unary or post-unary expression
MulOperand(expr) ==
    IF expr.type \in {"TernaryExpr", "BinaryExpr", "UnaryExpr", "PostUnaryExpr"}
    THEN <<"(">> \o Emission(expr) \o <<")">>
    ELSE Emission(expr)

\* the statement of the entry point was written as the line toks
WrittenAs(toks) == \E i \in 1..Len(sink) : Unindented(sink[i]) = toks

ReportedError(msg) ==
    \/ \E k \in 1..Len(log) : log[k].type = "Error" /\ log[k].msg = msg
    \/ \E k \in 1..Len(raised) : raised[k].msg = msg

\* C15: a call of mul with the arguments A and B is written as (A' * B'), each
\* argument in its own brackets iff it is a ternary, binary, unary or post-unary
\* expression; a call of mul with another number of arguments reports an error
\* and no multiplication is written.
C15_MulIntrinsic ==
    (EntryIsCall("Mul") /\ Visited(EntryIndex)) =>
        LET arguments == EntryExpr.call.arguments
        IN  IF Len(arguments) = 2
            THEN WrittenAs(<<"(">> \o MulOperand(arguments[1]) \o <<" * ">>
                           \o MulOperand(arguments[2]) \o <<")", ";">>)
            ELSE /\ ReportedError("invalid number of arguments in intrinsic")
                 /\ " * " \notin Tokens(sink) \cup Range(cur)


EntryIsSuffixExpr ==
    /\ program.entryPointRef # <<>>
    /\ Len(EntryStmnts) = 1
    /\ EntryStmnts[1].type = "ExprStmnt"
    /\ EntryExpr.type = "SuffixExpr"

\* the text of a chain of identifiers, from the left: left is the text of
\* everything to the left of the first identifier of varIdent and lhsTypeDen
\* its type; on a scalar the text is wrapped in the constructor of the type
\* the identifier selects, on other types the identifier is appended
RECURSIVE SuffixText(_, _, _)
SuffixText(left, lhsTypeDen, varIdent) ==
    IF varIdent = <<>> THEN left
    ELSE LET level == Head(varIdent)
         IN  SuffixText(IF IsScalar(lhsTypeDen)
                        THEN DataTypeToGLSLKeyword(level.typeDenoter.dataType)
                             \o <<"(">> \o left \o <<")">>
                        ELSE left \o <<".", level.ident>>,
                        level.typeDenoter, Tail(varIdent))

\* C16: a suffix expression is written level by level from the left: a level
\* on a scalar as the constructor of the type its swizzle selects around all
\* the text to its left, without the swizzle name, any other level as ".ident";
\* so the constructors opened before the left-hand expression are those
\* closed after it, properly nested.
C16_SuffixExpr ==
    (EntryIsSuffixExpr /\ Visited(EntryIndex)) =>
        WrittenAs(SuffixText(Emission(EntryExpr.expr), EntryExpr.typeDenoter, EntryExpr.varIdent)
                  \o <<";">>)

\* 1.0.xx.y.xxx was written as vec3(vec2(1.0).y)
C16_Witness ==
    /\ EntryIsSuffixExpr
    /\ Visited(EntryIndex)
    /\ Len(EntryExpr.varIdent) = 3
    /\ WrittenAs(<<"vec3", "(", "vec2", "(", "1.0", ")", ".", "y", ")", ";">>)

-----------------------------------------------------------------------------
(* Nested structures *)

\* the lines that open the definition of the structure ident
StructLines(ident) ==
    { i \in 1..Len(sink) : Unindented(sink[i]) = <<"struct", " ", ident>> }

\* the structure outer has a member whose type is the structure inner
ContainsStruct(outer, inner) ==
    \E k \in 1..Len(outer.members) :
        /\ outer.members[k].type = "VarDeclStmnt"
        /\ outer.members[k].varType.structDecl # <<>>
        /\ outer.members[k].varType.structDecl[1].ident = inner.ident

\* the root structures whose statement was visited and written
WrittenRootStructs ==
    { program.globalStmnts[i].structDecl : i \in
        { k \in 1..Len(program.globalStmnts) :
            /\ program.globalStmnts[k].type = "StructDeclStmnt"
            /\ program.globalStmnts[k].structDecl.isReachable
            /\ ~program.globalStmnts[k].structDecl.isNestedStruct
            /\ ~MustResolveStructForTarget(gen.shaderTarget_, program.globalStmnts[k].structDecl)
            /\ Visited(k)
            /\ (pc = "Visit" \/ Complete) } }

\* the lines after line i that hold the identifier and do not open a definition
UsesAfter(ident, i) ==
    { j \in 1..Len(sink) : j > i /\ ident \in Range(sink[j]) /\ j \notin StructLines(ident) }

\* C17: when a root structure that need not be resolved is written, each
\* structure nested in it is defined exactly once, before the root and before
\* every structure that contains it; where a structure holds a member of the
\* nested type, only the identifier of the nested structure is written.
C17_NestedStructs ==
    \A root \in WrittenRootStructs :
        \A k \in 1..Len(root.nestedStructDeclRefs) :
            LET nested == root.nestedStructDeclRefs[k]
                outers == { o \in {root} \cup Range(root.nestedStructDeclRefs) :
                              ContainsStruct(o, nested) }
            IN  /\ Cardinality(StructLines(nested.ident)) = 1
                /\ \A a \in StructLines(nested.ident) :
                      /\ \A b \in StructLines(root.ident) : a < b
                      /\ \A o \in outers :
                            /\ \A b \in StructLines(o.ident) : a < b
                            /\ \E b \in StructLines(o.ident) : UsesAfter(nested.ident, b) # {}

\* the root S was written after N, nested in it, and N after I, nested in N
C17_Witness ==
    /\ \E root \in WrittenRootStructs : Len(root.nestedStructDeclRefs) = 2
    /\ \E a \in StructLines("I"), b \in StructLines("N"), c \in StructLines("S") :
          a < b /\ b < c

-----------------------------------------------------------------------------
(* Variable declaration statements *)

\* the global statement of the given type is visited and the visit returns
VisitReturns(type) ==
    /\ pc = "Visit"
    /\ gi <= Len(program.globalStmnts)
    /\ program.globalStmnts[gi].type = type
    /\ gi' = gi + 1
    /\ pc' = "Visit"

\* the variables that are left: not flagged disable-code-gen and, inside an
\* interface block, without a system-value semantic
RemainingVarDecls(varDecls, insideInterfaceBlock) ==
    SelectSeq(varDecls, LAMBDA d : ~d.disableCodeGen /\ ~(insideInterfaceBlock /\ d.semantic.sv))

\* the identifiers, separated by commas, and the semicolon
RECURSIVE DeclaratorList(_)
DeclaratorList(varDecls) ==
    IF Len(varDecls) = 1 THEN <<varDecls[1].ident, ";">>
    ELSE <<varDecls[1].ident, ", ">> \o DeclaratorList(Tail(varDecls))

EndsWith(line, toks) ==
    /\ Len(line) >= Len(toks)
    /\ SubSeq(line, Len(line) - Len(toks) + 1, Len(line)) = toks

\* the lines the step has added to the sink
NewLines == { sink'[i] : i \in (Len(sink) + 1)..Len(sink') }

\* the statement ast was written by the step as it should
WrittenFiltered(ast, insideInterfaceBlock) ==
    LET remaining == RemainingVarDecls(ast.varDecls, insideInterfaceBlock)
        mine      == { l \in NewLines :
                         \E k \in 1..Len(ast.varDecls) : ast.varDecls[k].ident \in Range(l) }
    IN  IF remaining = <<>> THEN mine = {}
        ELSE /\ Cardinality(mine) = 1
             /\ \A l \in mine :
                   /\ EndsWith(l, DeclaratorList(remaining))
                   /\ Cardinality({ i \in 1..Len(l) : l[i] = ";" }) = 1
                   /\ \A k \in 1..Len(ast.varDecls) :
                         ast.varDecls[k].ident \in Range(l) =>
                            \E j \in 1..Len(remaining) : remaining[j] = ast.varDecls[k]

\* C18: a variable declaration statement all of whose variables are filtered
\* out writes nothing; otherwise it writes one line with the variables that
\* are left, in their order, separated by commas, and one semicolon.  Checked
\* on the global statements and on the members of an interface block.
C18_FilteredVarDecls ==
    [][ /\ VisitReturns("VarDeclStmnt") =>
            LET ast == program.globalStmnts[gi]
            IN  /\ WrittenFiltered(ast, FALSE)
                /\ cur' = cur /\ lineOpen' = lineOpen
                /\ Len(sink') = Len(sink)
                                + (IF RemainingVarDecls(ast.varDecls, FALSE) = <<>> THEN 0 ELSE 1)
        /\ VisitReturns("StructDeclStmnt") =>
            LET decl == program.globalStmnts[gi].structDecl
            IN  (decl.isReachable /\ ~MustResolveStructForTarget(gen'.shaderTarget_, decl)) =>
                    \A k \in 1..Len(decl.members) :
                        decl.members[k].varType.structDecl = <<>> =>
                            WrittenFiltered(decl.members[k],
                                            decl.isShaderInput \/ decl.isShaderOutput)
      ]_vars

\* a global statement whose first variable is filtered out and whose second is
\* not was written as the declaration of the second
C18_Witness ==
    /\ Visited(1)
    /\ pc = "Visit"
    /\ program.globalStmnts[1].type = "VarDeclStmnt"
    /\ Len(program.globalStmnts[1].varDecls) = 2
    /\ program.globalStmnts[1].varDecls[1].disableCodeGen
    /\ ~program.globalStmnts[1].varDecls[2].disableCodeGen
    /\ WrittenAs(<<"vec4", " ", "w", ";">>)
    /\ "v" \notin Tokens(sink)

-----------------------------------------------------------------------------
(* The state of the emitter around a visit *)

\* the calls of the visit of the next global statement
GlobalVisitCalls(ub) ==
    LET ast == program.globalStmnts[gi]
    IN  CASE ast.type = "FunctionDecl"     -> VisitFunctionDecl(G(ub), ast)
          [] ast.type = "BufferDeclStmnt"  -> VisitBufferDeclStmnt(G(ub), ast)
          [] ast.type = "TextureDeclStmnt" -> VisitTextureDeclStmnt(G(ub), ast)
          [] ast.type = "StructDeclStmnt"  -> VisitStructDeclStmnt(G(ub), ast)
          [] ast.type = "VarDeclStmnt"     -> VisitVarDeclStmnt(G(ub), ast)
          [] ast.type = "AliasDeclStmnt"   -> VisitAliasDeclStmnt(G(ub), ast)

\* the number of calls of the operation op among the first n calls
CallsOf(calls, op, n) == Cardinality({ i \in 1..n : calls[i].op = op })

\* every closing call is matched by an opening call before it, and every
\* opening call by a closing call
Matched(calls, opening, closing) ==
    /\ \A n \in 1..Len(calls) : CallsOf(calls, closing, n) <= CallsOf(calls, opening, n)
    /\ CallsOf(calls, closing, Len(calls)) = CallsOf(calls, opening, Len(calls))

\* C19: a visit that returns normally leaves the indentation level and the
\* options stack as they were before it, with every IncIndent matched by a
\* later DecIndent and every PushOptions by a later PopOptions, and leaves the
\* inside-entry-point and inside-interface-block flags false; a complete
\* generation ends at level 0, with the options stack as at the start and
\* both flags false.
C19_VisitRestoresState ==
    [][ /\ (pc \in {"VisitProgram", "Visit"} /\ pc' = "Visit") =>
            /\ indent' = indent
            /\ options' = options
            /\ ~gen'.isInsideEntryPoint_
            /\ ~gen'.isInsideInterfaceBlock_
        /\ (pc = "Visit" /\ pc' = "Visit" /\ gi' = gi + 1) =>
            \A ub \in {"crash", "garbage"} :
                \E calls \in {GlobalVisitCalls(ub)} :
                    (\A i \in 1..Len(calls) : calls[i].op # "Crash") =>
                        /\ Matched(calls, "IncIndent", "DecIndent")
                        /\ Matched(calls, "PushOptions", "PopOptions")
        /\ (pc' = "done" /\ escaped' = NoExc) =>
            /\ indent' = 0
            /\ options' = <<>>
            /\ ~gen'.isInsideEntryPoint_
            /\ ~gen'.isInsideInterfaceBlock_
      ]_vars

\* a generation is complete whose entry point holds a for loop, written with
\* its header on one line and its body one level deeper
C19_Witness ==
    /\ Complete
    /\ program.entryPointRef # <<>>
    /\ EntryStmnts # <<>>
    /\ EntryStmnts[1].type = "ForLoopStmnt"
    /\ \E i \in LinesStarting(sink, "for (") :
          /\ sink[i][Len(sink[i])] = ")"
          /\ SubSeq(sink[i + 1], 1, 2) = <<"    ", "    ">>
    /\ indent = 0 /\ options = <<>>

-----------------------------------------------------------------------------
(* Lines *)

\* C20: the calls of BeginLn and EndLn alternate, starting with BeginLn: no
\* line is begun while a line is open, no line is ended while none is open,
\* and a complete generation leaves no line open.
C20_LinesAlternate ==
    /\ lnFaults = 0
    /\ Complete => ~lineOpen

====
